---- MODULE Spec2Model ----
(***************************************************************************)
(* Model of the peskas-api permission-scoped query engine:                 *)
(*   - the permission model and the permission validator                   *)
(*     (models/permissions.py, services/permissions.py),                   *)
(*   - the query request (models/params.py),                               *)
(*   - the landings data endpoint and its dependencies                     *)
(*     (api/endpoints/datasets.py, api/deps.py, core/auth.py),             *)
(*   - the snapshot resolver (services/gcs.py),                            *)
(*   - the shared DuckDB connection of the query service                   *)
(*     (services/query.py).                                                *)
(*                                                                         *)
(* Optional values (Python's "x | None") are sequences of length <= 1:     *)
(* None is << >> and a present value v is << v >>, so that an empty list   *)
(* that is present, << << >> >>, differs from an absent list, << >>.       *)
(* Python lists are sequences.  Text that the code only formats is kept    *)
(* as a tuple of its parts.                                                *)
(***************************************************************************)
EXTENDS Integers, Sequences, FiniteSets, TLC

VARIABLES
    \* ---- PermissionValidator applied as a function (SpecValidator)
    permissions,      \* APIKeyPermissions handed to PermissionValidator.__init__
    endpoint_path,    \* endpoint_path argument of validate_query_params
    query_params,     \* the raw query parameters a DatasetQueryParams is built from
    params,           \* the DatasetQueryParams built from them, or None
    result,           \* what validate_query_params did, or None
    vpc,              \* "new" -> "built" | "invalid" -> "validated"
    \* ---- one request to GET /api/v1/data/landings (Spec)
    api_key,          \* the X-API-Key header of the request, or None
    registry,         \* APIKeyRegistry.api_keys: key -> APIKeyConfig
    audit_up,         \* whether the audit sink takes writes
    pc,               \* where the request is
    key_config,       \* what verify_api_key returned, or None
    parquet_path,     \* what gcs.download_parquet returned, or None
    columns,          \* what params.get_columns returned, or None
    response,         \* the response the client gets, or None
    gcs_calls,        \* [listings, fetches]: calls made to the storage service
    executed,         \* the arguments of each query handed to the query service
    audit_calls,      \* the events handed to the audit service, in order
    audit_stored,     \* the events the audit sink stored
    env,              \* what the collaborators answered while the request ran
    first_run,        \* None, or the outcome of the request when it is replayed
                      \* against an audit sink that takes every write
    \* ---- requests sharing the connection of the query service (SpecQuery)
    q_format,         \* request -> "json" | "csv"
    q_columns,        \* request -> whether it carries a column projection
    q_pc,             \* request -> where it is in the query service
    q_conn,           \* the result pending on QueryService._conn, or None
    q_fetched,        \* request -> what each of its fetches returned
    q_loop,           \* the request running on the event loop, or None
    \* ---- calls of GCSService.download_parquet for one folder (SpecSnapshot)
    s_blobs,          \* the files upstream in the folder zanzibar/validated/
    s_local,          \* timestamp of the cache key -> state of the local file
    s_writers,        \* the calls that are writing a local file
    s_clobbered,      \* those of them whose file another call truncated
    s_pc,             \* call -> where it is in download_parquet
    s_latest,         \* call -> the file _get_latest_file returned, or None
    s_fetched,        \* call -> whether it asked storage for the blob
    s_result,         \* call -> what download_parquet returned or raised, or None
    s_newer,          \* call -> its version is newer than all resolved before it
    s_prior,          \* call -> its version was resolved before it listed, with
                      \*         no upstream change since then
    s_succeeded,      \* the versions download_parquet has returned a path for
    s_stable,         \* those returned with no upstream change since
    \* ---- one call of get_as_records or stream_csv (SpecResult)
    t_columns,        \* the `columns` argument: None or a list of names
    t_file,           \* the local snapshot file: its state and its schema
    t_query,          \* what query_parquet returned or raised, or None
    t_df,             \* the data frame fetched, or None
    t_out,            \* what the call returned or raised, or None
    \* ---- calls of query_parquet on one local file (SpecStatement)
    t_call,           \* the arguments of the call, or None
    t_prev            \* the call made before it and what it returned, or None

valVars == <<permissions, endpoint_path, result, vpc>>

reqVars == <<query_params, params>>

apiVars ==
    <<api_key, registry, audit_up, pc, key_config, parquet_path, columns, response,
      gcs_calls, executed, audit_calls, audit_stored, env, first_run>>

qVars == <<q_format, q_columns, q_pc, q_conn, q_fetched, q_loop>>

sVars ==
    <<s_blobs, s_local, s_writers, s_clobbered, s_pc, s_latest, s_fetched, s_result,
      s_newer, s_prior, s_succeeded, s_stable>>

tVars == <<t_columns, t_file, t_query, t_df, t_out, t_call, t_prev>>

vars == <<valVars, reqVars, apiVars, qVars, sVars, tVars>>

----------------------------------------------------------------------------
\* Optional values

None == << >>

Some(v) == << v >>

IsNone(x) == x = << >>

Val(x) == x[1]

Opt(S) == {None} \cup {Some(v) : v \in S}

Elems(list) == {list[i] : i \in 1..Len(list)}

Min(S) == CHOOSE m \in S : \A n \in S : m <= n

Max(S) == CHOOSE m \in S : \A n \in S : m >= n

----------------------------------------------------------------------------
\* Bounds of the model

\* dates are the days 1..MaxDate
MaxDate == 2

\* a permission set and a request together restrict dimensions and supply
\* optional query parameters at most this many times (validator specification)
MaxVaried == 3

\* the same, for the key and the request of the endpoint specification
MaxRequestVaried == 2

\* requests using the query service at the same time
NumQueryRequests == 2

\* calls of download_parquet running at the same time
NumResolvers == 2

\* version timestamps are 0..MaxTs (0 stands for 00000000000000)
MaxTs == 2

\* files upstream in the folder at any time
MaxBlobs == 2

Dates == 1..MaxDate

----------------------------------------------------------------------------
\* str.lower(), on the strings the model uses

Lower(s) ==
    CASE s = "Zanzibar" -> "zanzibar"
      [] s = "TLS"      -> "tls"
      [] s = "MZZ"      -> "mzz"
      [] s = "SKJ"      -> "skj"
      [] s = "Z"        -> "z"
      [] OTHER          -> s

LowerAll(list) == [i \in 1..Len(list) |-> Lower(list[i])]

----------------------------------------------------------------------------
\* models/permissions.py: APIKeyPermissions

\* normalize_string_lists (mode="before"): None stays None, a list is lowercased
normalize_string_lists(v) == IF IsNone(v) THEN None ELSE Some(LowerAll(Val(v)))

\* The model built from a configuration entry `raw` of the key registry.
APIKeyPermissions(raw) ==
    [ allow_all   |-> raw.allow_all,
      countries   |-> normalize_string_lists(raw.countries),
      statuses    |-> normalize_string_lists(raw.statuses),
      date_from   |-> raw.date_from,
      date_to     |-> raw.date_to,
      gaul_1      |-> normalize_string_lists(raw.gaul_1),
      gaul_2      |-> normalize_string_lists(raw.gaul_2),
      catch_taxon |-> normalize_string_lists(raw.catch_taxon),
      survey_id   |-> normalize_string_lists(raw.survey_id),
      endpoints   |-> raw.endpoints,
      max_limit   |-> raw.max_limit ]

----------------------------------------------------------------------------
\* models/params.py: DatasetQueryParams

\* Field(ge=1, le=1_000_000) of limit
LimitGe == 1

LimitLe == 1000000

\* Field(min_length=2, max_length=50) of country
CountryMinLength == 2

CountryMaxLength == 50

DatasetStatus == {"raw", "validated"}

ResponseFormat == {"csv", "json"}

\* validate_date_range with `<=` for `<`: a single day is refused too
validate_date_range_strict(date_from, date_to) ==
    ~(~IsNone(date_from) /\ ~IsNone(date_to) /\ Val(date_to) <= Val(date_from))

\* model_validator validate_date_range: date_to >= date_from if both given
validate_date_range(date_from, date_to) ==
    ~(~IsNone(date_from) /\ ~IsNone(date_to) /\ Val(date_to) < Val(date_from))

\* Whether the raw query parameters `q` meet the field constraints.
FieldsValid(q) ==
    /\ Len(q.country) >= CountryMinLength
    /\ Len(q.country) <= CountryMaxLength
    /\ q.status \in DatasetStatus
    /\ q.format \in ResponseFormat
    /\ IsNone(q.limit) \/ (Val(q.limit) >= LimitGe /\ Val(q.limit) <= LimitLe)

\* Whether pydantic accepts the raw query parameters `q`.
ParamsValid(q) == FieldsValid(q) /\ validate_date_range(q.date_from, q.date_to)

\* The DatasetQueryParams object built from `q`: the class declares the fields
\* country, status, date_from, date_to, gaul_1, catch_taxon, scope, limit and
\* format; any other query parameter (gaul_2, survey_id) is not a field of
\* it, so the object has no such attribute.  normalize_country lowercases.
DatasetQueryParams(q) ==
    [ country     |-> Lower(q.country),
      status      |-> q.status,
      date_from   |-> q.date_from,
      date_to     |-> q.date_to,
      gaul_1      |-> q.gaul_1,
      catch_taxon |-> q.catch_taxon,
      scope       |-> q.scope,
      limit       |-> q.limit,
      format      |-> q.format ]

\* Python attribute lookup: an attribute the object does not have raises
\* AttributeError
HasAttr(obj, name) == name \in DOMAIN obj

----------------------------------------------------------------------------
\* services/permissions.py: PermissionValidator

HTTP_403_FORBIDDEN == 403

\* the dimensions in the order validate_query_params looks at them
CheckOrder ==
    << "endpoints", "countries", "statuses", "date_range", "gaul_1", "gaul_2",
       "catch_taxon", "survey_id", "max_limit" >>

Pass == [kind |-> "pass", status |-> 0, dim |-> "", detail |-> << >>, evaluated |-> << >>]

\* raise HTTPException(status_code=HTTP_403_FORBIDDEN, detail=...)
Deny(dim, detail) ==
    [kind |-> "denied", status |-> HTTP_403_FORBIDDEN, dim |-> dim, detail |-> detail,
     evaluated |-> << >>]

\* reading an attribute the params object does not have
AttributeError(name) ==
    [kind |-> "error", status |-> 500, dim |-> name,
     detail |-> <<"AttributeError", name>>, evaluated |-> << >>]

\* validate_query_params returned without raising
Accepted(evaluated) ==
    [kind |-> "ok", status |-> 200, dim |-> "", detail |-> << >>, evaluated |-> evaluated]

\* str.startswith on token sequences
StartsWith(s, prefix) ==
    /\ Len(prefix) <= Len(s)
    /\ \A i \in 1..Len(prefix) : s[i] = prefix[i]

\* pattern.endswith("*")
EndsWithStar(pattern) == Len(pattern) > 0 /\ pattern[Len(pattern)] = "*"

\* _is_endpoint_allowed without the wildcard branch
_is_endpoint_allowed_exact(perms, path) ==
    \/ IsNone(perms.endpoints)
    \/ \E i \in 1..Len(Val(perms.endpoints)) : Val(perms.endpoints)[i] = path

_is_endpoint_allowed(perms, path) ==
    \/ IsNone(perms.endpoints)
    \/ \E i \in 1..Len(Val(perms.endpoints)) :
          LET pattern == Val(perms.endpoints)[i] IN
          IF EndsWithStar(pattern)
          THEN StartsWith(path, SubSeq(pattern, 1, Len(pattern) - 1))
          ELSE pattern = path

_validate_date_range(perms, requested_from, requested_to) ==
    IF ~IsNone(perms.date_from) /\ IsNone(requested_from)
    THEN Deny("date_range", <<"requires date_from >=", Val(perms.date_from)>>)
    ELSE IF ~IsNone(perms.date_from) /\ Val(requested_from) < Val(perms.date_from)
    THEN Deny("date_range", <<"cannot query data before", Val(perms.date_from),
                              "Requested", Val(requested_from)>>)
    ELSE IF /\ ~IsNone(perms.date_to)
            /\ ~IsNone(requested_to)
            /\ Val(requested_to) > Val(perms.date_to)
    THEN Deny("date_range", <<"cannot query data after", Val(perms.date_to),
                              "Requested", Val(requested_to)>>)
    ELSE Pass

_validate_filter_value(param_name, requested_value, allowed_values, human_name) ==
    IF ~IsNone(allowed_values) /\ Lower(requested_value) \notin Elems(Val(allowed_values))
    THEN Deny(param_name, <<"cannot filter by", human_name, requested_value,
                            "Allowed values", Val(allowed_values)>>)
    ELSE Pass

\* lines 50-56
CheckEndpoint(perms, path) ==
    IF /\ ~IsNone(path)
       /\ Val(path) # << >>
       /\ ~IsNone(perms.endpoints)
       /\ ~_is_endpoint_allowed(perms, Val(path))
    THEN Deny("endpoints", <<"does not have access to this endpoint">>)
    ELSE Pass

\* CheckCountry with `if self.permissions.countries:` for `is not None`
CheckCountryIfTruthy(perms, p) ==
    IF /\ ~IsNone(perms.countries)
       /\ Val(perms.countries) # << >>
       /\ Lower(p.country) \notin Elems(Val(perms.countries))
    THEN Deny("countries", <<"cannot access country", p.country,
                             "Allowed countries", Val(perms.countries)>>)
    ELSE Pass

\* lines 58-65
CheckCountry(perms, p) ==
    IF ~IsNone(perms.countries) /\ Lower(p.country) \notin Elems(Val(perms.countries))
    THEN Deny("countries", <<"cannot access country", p.country,
                             "Allowed countries", Val(perms.countries)>>)
    ELSE Pass

\* lines 67-74
CheckStatus(perms, p) ==
    IF ~IsNone(perms.statuses) /\ Lower(p.status) \notin Elems(Val(perms.statuses))
    THEN Deny("statuses", <<"cannot access data", p.status,
                            "Allowed statuses", Val(perms.statuses)>>)
    ELSE Pass

\* lines 76-78
CheckDateRange(perms, p) ==
    IF ~IsNone(p.date_from) \/ ~IsNone(p.date_to)
    THEN _validate_date_range(perms, p.date_from, p.date_to)
    ELSE Pass

\* lines 80-113, one filter: `if params.<name> is not None: _validate_filter_value(...)`
CheckFilter(perms, p, name, human_name) ==
    IF ~HasAttr(p, name) THEN AttributeError(name)
    ELSE IF ~IsNone(p[name])
    THEN _validate_filter_value(name, Val(p[name]), perms[name], human_name)
    ELSE Pass

\* lines 115-122
CheckLimit(perms, p) ==
    IF /\ ~IsNone(p.limit)
       /\ ~IsNone(perms.max_limit)
       /\ Val(p.limit) > Val(perms.max_limit)
    THEN Deny("max_limit", <<"maximum limit is", Val(perms.max_limit),
                             "Requested", Val(p.limit)>>)
    ELSE Pass

\* lines 50-122: the checks in order, stopping at the first exception raised;
\* `evaluated` lists the dimensions looked at.
RunChecks(perms, p, path) ==
    LET checks == << CheckEndpoint(perms, path),
                     CheckCountry(perms, p),
                     CheckStatus(perms, p),
                     CheckDateRange(perms, p),
                     CheckFilter(perms, p, "gaul_1", "GAUL level 1 code"),
                     CheckFilter(perms, p, "gaul_2", "GAUL level 2 code"),
                     CheckFilter(perms, p, "catch_taxon", "species code"),
                     CheckFilter(perms, p, "survey_id", "survey ID"),
                     CheckLimit(perms, p) >>
        raised == {i \in 1..Len(checks) : checks[i].kind # "pass"}
    IN IF raised = {} THEN Accepted(CheckOrder)
       ELSE [checks[Min(raised)] EXCEPT !.evaluated = SubSeq(CheckOrder, 1, Min(raised))]

\* validate_query_params without the allow_all shortcut of lines 46-48
validate_query_params_no_shortcut(perms, p, path) == RunChecks(perms, p, path)

\* The outcome of validate_query_params: Accepted when it returns, the first
\* exception raised otherwise.
validate_query_params(perms, p, path) ==
    IF perms.allow_all THEN Accepted(<< >>) ELSE RunChecks(perms, p, path)

----------------------------------------------------------------------------
\* Inputs of the validator specification

\* endpoint paths and patterns, as token sequences
DataPath == <<"/api/v1/", "data/", "landings">>

EndpointPatterns ==
    { << >>,
      << <<"/api/v1/", "data/", "*">> >>,
      << <<"/api/v1/", "data/", "landings">> >>,
      << <<"/api/v1/", "metadata/", "*">> >> }

StringLists(v) == { << >>, <<v>> }

\* the limits a client may ask for, and the ceilings a key may carry
RequestLimits == {0, 50000, 200000, 2000000}

KeyMaxLimits == {100000}

\* Every way to give each field of `fields` (a sequence of names) either None
\* or a present value drawn from values[field], with at most k present.
RECURSIVE Assignments(_, _, _)
Assignments(fields, values, k) ==
    IF fields = << >> THEN { << >> }
    ELSE LET f == Head(fields)
             absent == {(f :> None) @@ g : g \in Assignments(Tail(fields), values, k)}
             present ==
                 IF k = 0 THEN {}
                 ELSE {(f :> Some(v)) @@ g :
                          v \in values[f], g \in Assignments(Tail(fields), values, k - 1)}
         IN absent \cup present

RestrictionFields ==
    << "countries", "statuses", "date_from", "date_to", "gaul_1", "gaul_2",
       "catch_taxon", "survey_id", "endpoints", "max_limit" >>

\* the values a key registry entry may give each restriction
RestrictionValues ==
    [ countries   |-> StringLists("Zanzibar"),
      statuses    |-> StringLists("validated"),
      date_from   |-> Dates,
      date_to     |-> Dates,
      gaul_1      |-> StringLists("1696"),
      gaul_2      |-> StringLists("16961"),
      catch_taxon |-> StringLists("MZZ"),
      survey_id   |-> StringLists("survey_1"),
      endpoints   |-> EndpointPatterns,
      max_limit   |-> KeyMaxLimits ]

NumRestricted(perms) ==
    Cardinality({i \in 1..Len(RestrictionFields) : ~IsNone(perms[RestrictionFields[i]])})

\* the registry entries restricting at most k dimensions
PermissionConfigs(k) ==
    {("allow_all" :> a) @@ g :
        a \in BOOLEAN, g \in Assignments(RestrictionFields, RestrictionValues, k)}

\* the permission sets of the model, as APIKeyPermissions builds them
PermissionSets == {APIKeyPermissions(raw) : raw \in PermissionConfigs(MaxVaried)}

OptionalParams ==
    << "date_from", "date_to", "gaul_1", "gaul_2", "catch_taxon", "survey_id", "limit" >>

\* the values a client may give each optional query parameter
OptionalValues ==
    [ date_from   |-> Dates,
      date_to     |-> Dates,
      gaul_1      |-> {"1696", "9999"},
      gaul_2      |-> {"16961"},
      catch_taxon |-> {"MZZ", "SKJ"},
      survey_id   |-> {"survey_1"},
      limit       |-> RequestLimits ]

NumSupplied(q) ==
    Cardinality({i \in 1..Len(OptionalParams) : ~IsNone(q[OptionalParams[i]])})

\* the raw query parameters supplying at most k optional parameters
Queries(k) ==
    {[country |-> c, status |-> s, scope |-> None, format |-> "csv"] @@ g :
        c \in {"Zanzibar", "TLS", "Z"}, s \in DatasetStatus,
        g \in Assignments(OptionalParams, OptionalValues, k)}

QueriesUpTo == [k \in 0..MaxVaried |-> Queries(k)]

PermissionSetsUpTo ==
    [k \in 0..MaxRequestVaried |-> {APIKeyPermissions(raw) : raw \in PermissionConfigs(k)}]

\* the query strings of the endpoint specification: scope and format vary too
EndpointOptionalParams == OptionalParams \o <<"scope">>

EndpointOptionalValues == OptionalValues @@ [scope |-> {"core", "trip_info"}]

EndpointQueries(k) ==
    {[country |-> c, status |-> s, format |-> f] @@ g :
        c \in {"Zanzibar", "TLS"}, s \in DatasetStatus, f \in ResponseFormat,
        g \in Assignments(EndpointOptionalParams, EndpointOptionalValues, k)}

EndpointQueriesUpTo == [k \in 0..MaxRequestVaried |-> EndpointQueries(k)]

----------------------------------------------------------------------------
\* SpecValidator: PermissionValidator.validate_query_params as a function of a
\* permission set, a DatasetQueryParams and an endpoint path.

\* the request variables while no request is being served
ApiIdle ==
    /\ api_key = None
    /\ registry = << >>
    /\ audit_up = TRUE
    /\ pc = "idle"
    /\ key_config = None
    /\ parquet_path = None
    /\ columns = None
    /\ response = None
    /\ gcs_calls = [listings |-> 0, fetches |-> 0]
    /\ executed = << >>
    /\ audit_calls = << >>
    /\ audit_stored = << >>
    /\ env = [validation |-> "", download |-> "", query |-> "", body |-> ""]
    /\ first_run = None

\* the query service while no request uses it
QueryIdle ==
    /\ q_format = << >>
    /\ q_columns = << >>
    /\ q_pc = << >>
    /\ q_conn = None
    /\ q_fetched = << >>
    /\ q_loop = None

\* the query service while no call of get_as_records or stream_csv runs
ResultIdle ==
    /\ t_columns = None
    /\ t_file = [state |-> "missing", schema |-> {}]
    /\ t_query = None
    /\ t_df = None
    /\ t_out = None
    /\ t_call = None
    /\ t_prev = None

\* the snapshot resolver while no call runs
SnapshotIdle ==
    /\ s_blobs = {}
    /\ s_local = << >>
    /\ s_writers = {}
    /\ s_clobbered = {}
    /\ s_pc = << >>
    /\ s_latest = << >>
    /\ s_fetched = << >>
    /\ s_result = << >>
    /\ s_newer = << >>
    /\ s_prior = << >>
    /\ s_succeeded = {}
    /\ s_stable = {}

InitValidator ==
    /\ ApiIdle
    /\ QueryIdle
    /\ SnapshotIdle
    /\ ResultIdle
    /\ permissions \in PermissionSets
    /\ endpoint_path \in {None, Some(DataPath)}
    /\ query_params \in QueriesUpTo[MaxVaried - NumRestricted(permissions)]
    /\ params = None
    /\ result = None
    /\ vpc = "new"

\* DatasetQueryParams(**query_params): pydantic builds the object or raises
BuildParams ==
    /\ vpc = "new"
    /\ IF ParamsValid(query_params)
       THEN params' = Some(DatasetQueryParams(query_params)) /\ vpc' = "built"
       ELSE params' = None /\ vpc' = "invalid"
    /\ UNCHANGED <<permissions, endpoint_path, query_params, result>>
    /\ UNCHANGED <<apiVars, qVars, sVars, tVars>>

\* PermissionValidator(permissions).validate_query_params(params, endpoint_path)
Validate ==
    /\ vpc = "built"
    /\ result' = Some(validate_query_params(permissions, Val(params), endpoint_path))
    /\ vpc' = "validated"
    /\ UNCHANGED <<permissions, endpoint_path, query_params, params>>
    /\ UNCHANGED <<apiVars, qVars, sVars, tVars>>

NextValidator == BuildParams \/ Validate

SpecValidator == InitValidator /\ [][NextValidator]_vars

----------------------------------------------------------------------------
\* schema/scopes.py

SCOPE_DEFINITIONS ==
    [ landings |->
        [ core     |-> << "trip_id", "landing_date", "gaul_1_code", "gaul_1_name",
                          "catch_taxon", "catch_kg" >>,
          detailed |-> << "trip_id", "landing_date", "gaul_1_code", "gaul_1_name",
                          "catch_taxon", "catch_kg", "gear", "vessel_type",
                          "n_fishers", "trip_duration_hrs", "catch_price",
                          "length_cm" >>,
          summary  |-> << "landing_date", "catch_taxon", "catch_kg" >>,
          trip     |-> << "trip_id", "landing_date", "gaul_1_code", "n_fishers",
                          "trip_duration_hrs", "gear", "vessel_type" >> ] ]

\* the column list of a scope, or None if the scope is not defined
get_scope_columns(scope, dataset_type) ==
    IF dataset_type \notin DOMAIN SCOPE_DEFINITIONS THEN None
    ELSE IF scope \notin DOMAIN SCOPE_DEFINITIONS[dataset_type] THEN None
    ELSE Some(SCOPE_DEFINITIONS[dataset_type][scope])

\* models/params.py, DatasetQueryParams.get_columns: the columns of the scope,
\* None (all columns) without a scope, ValueError for an unknown scope
get_columns(p, dataset_type) ==
    IF ~IsNone(p.scope) /\ Val(p.scope) # ""
    THEN LET cols == get_scope_columns(Val(p.scope), dataset_type)
         IN IF IsNone(cols) THEN [kind |-> "ValueError", value |-> None]
            ELSE [kind |-> "ok", value |-> cols]
    ELSE [kind |-> "ok", value |-> None]

----------------------------------------------------------------------------
\* One request to the landings endpoint: main.py (log_requests), core/auth.py
\* (verify_api_key), api/endpoints/datasets.py (get_dataset)

HTTP_401_UNAUTHORIZED == 401

KeyIdLength == 8

LandingsPath == "/api/v1/data/landings"

RestrictedKey == "test-restricted-key"

\* the key registry: a key with the permission set perms, a disabled key and a
\* short admin key
Registry(perms) ==
    (RestrictedKey :> [name |-> "restricted", enabled |-> TRUE, permissions |-> perms])
    @@ ("disabled-key" :>
           [name |-> "retired", enabled |-> FALSE,
            permissions |-> APIKeyPermissions(CHOOSE raw \in PermissionConfigs(0) : ~raw.allow_all)])
    @@ ("k1" :>
           [name |-> "admin", enabled |-> TRUE,
            permissions |-> APIKeyPermissions(CHOOSE raw \in PermissionConfigs(0) : raw.allow_all)])

ApiKeys == {None, Some("wrong-key"), Some("disabled-key"), Some("k1"), Some(RestrictedKey)}

\* APIKeyRegistry.get_key_config
get_key_config(api_keys, key) == IF key \in DOMAIN api_keys THEN Some(api_keys[key]) ELSE None

\* the identifier of a key in logs and audit events
TruncateKey(key) == IF Len(key) > KeyIdLength THEN SubSeq(key, 1, KeyIdLength) \o "..." ELSE key

\* request.client.host; "unknown" for a request without a client address
ClientHost == "203.0.113.42"

\* models/audit.py, AuditLog, without timestamp and duration_ms
AuditLog(event_type, api_key_name, api_key_id, endpoint, client_ip, country, request_params, status_code, error_message) ==
    [ event_type    |-> event_type,
      api_key_name  |-> api_key_name,
      api_key_id    |-> api_key_id,
      endpoint      |-> endpoint,
      method        |-> "GET",
      client_ip     |-> client_ip,
      country       |-> country,
      query_params  |-> request_params,
      status_code   |-> status_code,
      error_message |-> error_message ]

\* What the audit sink does with one event: "stored" (insert_one returned),
\* "init_failed" (_ensure_initialized failed and left collection None: the
\* event is skipped with a warning) or "write_failed" (insert_one, or the
\* index creation before it, raised).  A sink that is up stores every event;
\* one that is not may fail any of them.
SinkOutcomes == IF audit_up THEN {"stored"} ELSE {"stored", "init_failed", "write_failed"}

\* _log_event if its `except Exception` re-raised
_log_event_reraises(sink) == sink = "write_failed"

\* AuditService._log_event, lines 64-76: whether the call raises to its
\* caller when the sink outcome is `sink`.  Everything is inside
\* try / except Exception, which logs the error and returns.
_log_event_raises(sink) == FALSE

\* AuditService._log_event: the event reaches the sink or is dropped
_log_event(audit_log, sink) ==
    /\ audit_calls' = Append(audit_calls, audit_log)
    /\ audit_stored' = IF sink = "stored" THEN Append(audit_stored, audit_log) ELSE audit_stored

\* log_auth_failure if it built the event and did not hand it on
log_auth_failure_dropped(endpoint, error_message, sink) ==
    UNCHANGED <<audit_calls, audit_stored>>

log_auth_failure(endpoint, error_message, sink) ==
    _log_event(AuditLog("auth_failure", "Unknown", "N/A", endpoint, ClientHost, None,
                        << >>, None, Some(error_message)), sink)

log_auth_success(api_key_name, api_key_id, endpoint, sink) ==
    _log_event(AuditLog("auth_success", api_key_name, api_key_id, endpoint, ClientHost,
                        None, << >>, None, None), sink)

\* event_type is permission_check if allowed, permission_denied otherwise
log_permission_check(api_key_name, api_key_id, endpoint, client_ip, request_params, allowed, error_message, sink) ==
    _log_event(AuditLog(IF allowed THEN "permission_check" ELSE "permission_denied",
                        api_key_name, api_key_id, endpoint, client_ip,
                        Some(request_params.country), request_params, None,
                        error_message), sink)

log_data_access(api_key_name, api_key_id, endpoint, request_params, status_code, sink) ==
    _log_event(AuditLog("data_access", api_key_name, api_key_id, endpoint, ClientHost,
                        Some(request_params.country), request_params, Some(status_code),
                        None), sink)

\* an HTTP response: status, error detail and what the body is ("none",
\* "json", or for CSV "stream" until the generator ran, then "csv" or
\* "aborted")
Response(status, detail, body) == [status |-> status, detail |-> detail, body |-> body]

\* an exception no handler catches: the server answers 500
InternalServerError == Response(500, "Internal Server Error", "none")

\* What a collaborator may answer at `point`: any of `all` while the request
\* runs, and the answer it gave then when the request is replayed.
Outcomes(point, all) == IF IsNone(first_run) THEN all ELSE {env[point]}

\* the first dependency of get_dataset
verify_api_key ==
    /\ pc = "auth"
    /\ \E sink \in SinkOutcomes :
         LET found == IF IsNone(api_key) THEN None
                      ELSE get_key_config(registry, Val(api_key))
             failure == IF IsNone(api_key)
                        THEN Response(HTTP_401_UNAUTHORIZED,
                                      "Missing API key. Include X-API-Key header.", "none")
                        ELSE IF IsNone(found)
                        THEN Response(HTTP_403_FORBIDDEN, "Invalid API key.", "none")
                        ELSE Response(HTTP_403_FORBIDDEN, "API key is disabled.", "none")
         IN /\ IF IsNone(api_key)
               THEN log_auth_failure(LandingsPath, "Missing API key header", sink)
               ELSE IF IsNone(found)
               THEN log_auth_failure(LandingsPath, "Invalid API key", sink)
               ELSE IF ~Val(found).enabled
               THEN log_auth_failure(LandingsPath, "Disabled API key: " \o Val(found).name,
                                     sink)
               ELSE log_auth_success(Val(found).name, TruncateKey(Val(api_key)),
                                     LandingsPath, sink)
            /\ IF _log_event_raises(sink)
               THEN /\ response' = Some(InternalServerError)
                    /\ pc' = "done"
                    /\ UNCHANGED key_config
               ELSE IF IsNone(found) \/ ~Val(found).enabled
               THEN /\ response' = Some(failure)
                    /\ pc' = "respond"
                    /\ UNCHANGED key_config
               ELSE /\ key_config' = found
                    /\ pc' = "params"
                    /\ UNCHANGED response
    /\ UNCHANGED <<api_key, registry, audit_up, parquet_path, columns, gcs_calls, executed,
                   env, first_run>>
    /\ UNCHANGED <<valVars, reqVars, qVars, sVars, tVars>>

\* FastAPI builds `params: DatasetQueryParams = Depends()` from the query
\* string: a field constraint that fails is a RequestValidationError (422);
\* a failure of the model_validator is a pydantic ValidationError raised
\* inside the dependency call, which the framework answers 422 or leaves
\* unhandled (500) depending on its version
BuildParamsDependency ==
    /\ pc = "params"
    /\ IF ~FieldsValid(query_params)
       THEN /\ response' = Some(Response(422, "validation error", "none"))
            /\ pc' = "respond"
            /\ UNCHANGED <<params, env>>
       ELSE IF ~validate_date_range(query_params.date_from, query_params.date_to)
       THEN /\ \E outcome \in Outcomes("validation",
                                       {"RequestValidationError", "ValidationError"}) :
                 /\ env' = [env EXCEPT !.validation = outcome]
                 /\ IF outcome = "ValidationError"
                    THEN response' = Some(InternalServerError) /\ pc' = "done"
                    ELSE /\ response' = Some(Response(422, "date_to must be >= date_from",
                                                       "none"))
                         /\ pc' = "respond"
            /\ UNCHANGED params
       ELSE /\ params' = Some(DatasetQueryParams(query_params))
            /\ pc' = "download"
            /\ UNCHANGED <<response, env>>
    /\ UNCHANGED <<api_key, registry, audit_up, key_config, parquet_path, columns,
                   gcs_calls, executed, audit_calls, audit_stored, first_run>>
    /\ UNCHANGED <<valVars, query_params, qVars, sVars, tVars>>

\* get_dataset, lines 42-48: gcs.download_parquet lists the folder and returns
\* the local path of the latest snapshot, fetching it unless cached;
\* DataNotFoundError is a 404.  The storage contents are the environment's.
GetDatasetDownload ==
    /\ pc = "download"
    /\ \E outcome \in Outcomes("download", {"cached", "fetched", "DataNotFoundError"}) :
         /\ env' = [env EXCEPT !.download = outcome]
         /\ gcs_calls' = [listings |-> gcs_calls.listings + 1,
                          fetches  |-> gcs_calls.fetches + (IF outcome = "fetched" THEN 1 ELSE 0)]
         /\ IF outcome = "DataNotFoundError"
            THEN /\ response' = Some(Response(404, "No data found", "none"))
                 /\ pc' = "respond"
                 /\ UNCHANGED parquet_path
            ELSE /\ parquet_path' = Some(<<Val(params).country, Val(params).status>>)
                 /\ pc' = "columns"
                 /\ UNCHANGED response
    /\ UNCHANGED <<api_key, registry, audit_up, key_config, columns, executed,
                   audit_calls, audit_stored, first_run>>
    /\ UNCHANGED <<valVars, reqVars, qVars, sVars, tVars>>

\* get_dataset, lines 51-54: params.get_columns; ValueError is a 400
GetDatasetColumns ==
    /\ pc = "columns"
    /\ LET resolved == get_columns(Val(params), "landings")
       IN IF resolved.kind = "ValueError"
          THEN /\ response' = Some(Response(400, "Invalid scope", "none"))
               /\ pc' = "respond"
               /\ UNCHANGED columns
          ELSE /\ columns' = resolved.value
               /\ pc' = "query"
               /\ UNCHANGED response
    /\ UNCHANGED <<api_key, registry, audit_up, key_config, parquet_path, gcs_calls,
                   executed, audit_calls, audit_stored, env, first_run>>
    /\ UNCHANGED <<valVars, reqVars, qVars, sVars, tVars>>

\* the call get_dataset makes to the query service: date_column, date_from,
\* date_to, gaul_1, catch_taxon, columns and limit are passed; gaul_2 and
\* survey_id keep the default None of the method's signature
QueryCall(method) ==
    [ method       |-> method,
      parquet_path |-> Val(parquet_path),
      date_column  |-> Some("landing_date"),
      date_from    |-> Val(params).date_from,
      date_to      |-> Val(params).date_to,
      gaul_1       |-> Val(params).gaul_1,
      gaul_2       |-> None,
      catch_taxon  |-> Val(params).catch_taxon,
      survey_id    |-> None,
      columns      |-> columns,
      limit        |-> Val(params).limit ]

\* get_dataset, lines 48-49: DataNotFoundError of download_parquet is a 404
data_not_found_status == 404

\* get_dataset, lines 90-93: the status for an exception of the query
\* service; an exception that is neither is not handled
query_failure_status(kind) ==
    CASE kind = "ValueError"        -> 400
      [] kind = "FileNotFoundError" -> 404
      [] OTHER                      -> 500

\* get_dataset, lines 57-93.  JSON: get_as_records runs the query now;
\* ValueError is a 400, FileNotFoundError a 404, any other exception is not
\* handled.  CSV: a StreamingResponse is returned and the query runs when the
\* body is generated.
GetDatasetQuery ==
    /\ pc = "query"
    /\ IF Val(params).format = "json"
       THEN /\ executed' = Append(executed, QueryCall("get_as_records"))
            /\ \E outcome \in Outcomes("query", {"records", "ValueError",
                                                 "FileNotFoundError", "Exception"}) :
                 /\ env' = [env EXCEPT !.query = outcome]
                 /\ response' =
                       Some(CASE outcome = "records" -> Response(200, "", "json")
                              [] outcome = "ValueError" -> Response(400, "query failed", "none")
                              [] outcome = "FileNotFoundError" ->
                                     Response(404, "Parquet file not found", "none")
                              [] OTHER -> InternalServerError)
                 /\ pc' = IF outcome = "Exception" THEN "done" ELSE "respond"
       ELSE /\ response' = Some(Response(200, "", "stream"))
            /\ pc' = "respond"
            /\ UNCHANGED <<executed, env>>
    /\ UNCHANGED <<api_key, registry, audit_up, key_config, parquet_path, columns,
                   gcs_calls, audit_calls, audit_stored, first_run>>
    /\ UNCHANGED <<valVars, reqVars, qVars, sVars, tVars>>

\* main.py, log_requests after call_next returned a response: a data_access
\* event for every request that presented a key (the path is not /health).
\* The emission is inside try / except Exception (lines 143-165).
log_requests ==
    /\ pc = "respond"
    /\ IF ~IsNone(api_key) /\ Val(api_key) # ""
       THEN \E sink \in SinkOutcomes :
              LET found == get_key_config(registry, Val(api_key))
              IN IF IsNone(found)
                 THEN log_data_access("Unknown", "N/A", LandingsPath, query_params,
                                      Val(response).status, sink)
                 ELSE log_data_access(Val(found).name, TruncateKey(Val(api_key)),
                                      LandingsPath, query_params, Val(response).status,
                                      sink)
       ELSE UNCHANGED <<audit_calls, audit_stored>>
    /\ pc' = IF Val(response).body = "stream" THEN "stream" ELSE "done"
    /\ UNCHANGED <<api_key, registry, audit_up, key_config, parquet_path, columns,
                   response, gcs_calls, executed, env, first_run>>
    /\ UNCHANGED <<valVars, reqVars, qVars, sVars, tVars>>

\* get_dataset, lines 72-82: the body generator of the CSV response runs
\* stream_csv; an error in it ends the body early, the status is already sent
generate ==
    /\ pc = "stream"
    /\ executed' = Append(executed, QueryCall("stream_csv"))
    /\ \E body \in Outcomes("body", {"csv", "aborted"}) :
         /\ env' = [env EXCEPT !.body = body]
         /\ response' = Some([Val(response) EXCEPT !.body = body])
    /\ pc' = "done"
    /\ UNCHANGED <<api_key, registry, audit_up, key_config, parquet_path, columns,
                   gcs_calls, audit_calls, audit_stored, first_run>>
    /\ UNCHANGED <<valVars, reqVars, qVars, sVars, tVars>>

\* the validator variables while the endpoint specification runs
ValidatorIdle ==
    /\ permissions = APIKeyPermissions(CHOOSE raw \in PermissionConfigs(0) : ~raw.allow_all)
    /\ endpoint_path = None
    /\ result = None
    /\ vpc = "idle"

\* the request before its first step
RequestStart ==
    /\ pc = "auth"
    /\ params = None
    /\ key_config = None
    /\ parquet_path = None
    /\ columns = None
    /\ response = None
    /\ gcs_calls = [listings |-> 0, fetches |-> 0]
    /\ executed = << >>
    /\ audit_calls = << >>
    /\ audit_stored = << >>
    /\ env = [validation |-> "", download |-> "", query |-> "", body |-> ""]
    /\ first_run = None

Init ==
    /\ ValidatorIdle
    /\ QueryIdle
    /\ SnapshotIdle
    /\ ResultIdle
    /\ api_key \in ApiKeys
    /\ \E perms \in PermissionSetsUpTo[IF api_key = Some(RestrictedKey)
                                        THEN MaxRequestVaried ELSE 0] :
         /\ registry = Registry(perms)
         /\ query_params \in EndpointQueriesUpTo[MaxRequestVaried - NumRestricted(perms)]
    /\ audit_up \in BOOLEAN
    /\ RequestStart

Next ==
    \/ verify_api_key
    \/ BuildParamsDependency
    \/ GetDatasetDownload
    \/ GetDatasetColumns
    \/ GetDatasetQuery
    \/ log_requests
    \/ generate

Spec == Init /\ [][Next]_vars

\* The same request, followed once it has lost an audit event by the same
\* request against a sink that stores every event, the collaborators
\* answering as they did the first time.
Replay ==
    /\ pc = "done"
    /\ IsNone(first_run)
    /\ Len(audit_stored) < Len(audit_calls)
    /\ first_run' = Some([response |-> response,
                          lost     |-> Len(audit_calls) - Len(audit_stored)])
    /\ audit_up' = TRUE
    /\ pc' = "auth"
    /\ params' = None
    /\ key_config' = None
    /\ parquet_path' = None
    /\ columns' = None
    /\ response' = None
    /\ gcs_calls' = [listings |-> 0, fetches |-> 0]
    /\ executed' = << >>
    /\ audit_calls' = << >>
    /\ audit_stored' = << >>
    /\ UNCHANGED <<api_key, registry, env, query_params>>
    /\ UNCHANGED <<valVars, qVars, sVars, tVars>>

\* the keys of the registry carry fixed permissions: no step of the request
\* reads them
InitRequest ==
    /\ ValidatorIdle
    /\ QueryIdle
    /\ SnapshotIdle
    /\ ResultIdle
    /\ api_key \in ApiKeys
    /\ registry = Registry(permissions)
    /\ query_params \in EndpointQueriesUpTo[MaxRequestVaried]
    /\ audit_up \in BOOLEAN
    /\ RequestStart

NextRequest == Next \/ Replay

SpecRequest == InitRequest /\ [][NextRequest]_vars

----------------------------------------------------------------------------
\* api/deps.py: validate_permissions, called with an authenticated key and a
\* DatasetQueryParams (SpecPermissions)

\* the keys of query_params_dict, in the order the dict literal reads them
\* from params
query_params_dict_keys ==
    << "country", "status", "date_from", "date_to", "gaul_1", "gaul_2", "catch_taxon",
       "survey_id", "scope", "limit", "format" >>

\* lines 58-70
query_params_dict(p) == [key \in Elems(query_params_dict_keys) |-> p[key]]

\* an exception raised by the audit service inside validate_permissions
AuditException ==
    [kind |-> "error", status |-> 500, dim |-> "audit", detail |-> <<"Exception">>,
     evaluated |-> << >>]

\* lines 50-105.  endpoint_path is None when the dependency is given no
\* request.  The dict literal is built before the validator runs: an
\* attribute params does not have raises AttributeError there.  A decision
\* of the validator is logged with api_key_id "N/A"; an exception of it that
\* is not an HTTPException is not logged.
validate_permissions ==
    /\ vpc = "built"
    /\ LET p == Val(params)
           auth == Val(key_config)
           missing == {i \in 1..Len(query_params_dict_keys) :
                          ~HasAttr(p, query_params_dict_keys[i])}
       IN IF missing # {}
          THEN /\ result' = Some(AttributeError(query_params_dict_keys[Min(missing)]))
               /\ UNCHANGED <<audit_calls, audit_stored>>
          ELSE LET outcome == validate_query_params(auth.permissions, p, endpoint_path)
                   endpoint == IF IsNone(endpoint_path) THEN << >> ELSE Val(endpoint_path)
                   client_ip == IF IsNone(endpoint_path) THEN "unknown" ELSE ClientHost
               IN IF outcome.kind = "error"
                  THEN /\ result' = Some(outcome)
                       /\ UNCHANGED <<audit_calls, audit_stored>>
                  ELSE \E sink \in SinkOutcomes :
                         /\ log_permission_check(
                               auth.name, "N/A", endpoint, client_ip, query_params_dict(p),
                               outcome.kind = "ok",
                               IF outcome.kind = "ok" THEN None ELSE Some(outcome.detail),
                               sink)
                         /\ result' = Some(IF _log_event_raises(sink) THEN AuditException
                                           ELSE outcome)
    /\ vpc' = "validated"
    /\ UNCHANGED <<permissions, endpoint_path, query_params, params>>
    /\ UNCHANGED <<api_key, registry, audit_up, pc, key_config, parquet_path, columns,
                   response, gcs_calls, executed, env, first_run>>
    /\ UNCHANGED <<qVars, sVars, tVars>>

\* verify_api_key has returned the configuration of the key
InitPermissions ==
    /\ QueryIdle
    /\ SnapshotIdle
    /\ ResultIdle
    /\ permissions \in PermissionSetsUpTo[MaxRequestVaried]
    /\ endpoint_path \in {None, Some(DataPath)}
    /\ query_params \in QueriesUpTo[MaxRequestVaried - NumRestricted(permissions)]
    /\ params = None
    /\ result = None
    /\ vpc = "new"
    /\ api_key = Some(RestrictedKey)
    /\ registry = Registry(permissions)
    /\ key_config = get_key_config(registry, RestrictedKey)
    /\ audit_up \in BOOLEAN
    /\ pc = "idle"
    /\ parquet_path = None
    /\ columns = None
    /\ response = None
    /\ gcs_calls = [listings |-> 0, fetches |-> 0]
    /\ executed = << >>
    /\ audit_calls = << >>
    /\ audit_stored = << >>
    /\ env = [validation |-> "", download |-> "", query |-> "", body |-> ""]
    /\ first_run = None

NextPermissions == BuildParams \/ validate_permissions

SpecPermissions == InitPermissions /\ [][NextPermissions]_vars

----------------------------------------------------------------------------
\* services/query.py: the requests of one process share QueryService._conn.
\* conn.execute(sql) leaves its result pending on the connection and returns
\* the connection; fetchdf() takes the result pending on the connection.
\* get_dataset runs get_as_records inside the coroutine, on the event loop;
\* the body generator of a CSV response (stream_csv) runs in a worker thread.

QueryRequests == 1..NumQueryRequests

\* a request enters the query service: query_parquet reads the schema first
\* (_get_columns) if the request has a column projection
QueryStart(r) ==
    /\ q_pc[r] = "pending"
    /\ IF q_format[r] = "json"
       THEN q_loop = None /\ q_loop' = Some(r)
       ELSE UNCHANGED q_loop
    /\ q_pc' = [q_pc EXCEPT ![r] = IF q_columns[r] THEN "schema" ELSE "query"]
    /\ UNCHANGED <<q_format, q_columns, q_conn, q_fetched>>
    /\ UNCHANGED <<valVars, reqVars, apiVars, sVars, tVars>>

\* self._conn.execute(...) of _get_columns (pc "schema") or of query_parquet
\* (pc "query"): the statement's result replaces the pending one
ConnExecute(r) ==
    /\ q_pc[r] \in {"schema", "query"}
    /\ q_conn' = Some([owner |-> r, statement |-> q_pc[r]])
    /\ q_pc' = [q_pc EXCEPT ![r] = IF q_pc[r] = "schema" THEN "schema_fetch" ELSE "query_fetch"]
    /\ UNCHANGED <<q_format, q_columns, q_fetched, q_loop>>
    /\ UNCHANGED <<valVars, reqVars, apiVars, sVars, tVars>>

\* result.fetchdf() of _get_columns or relation.fetchdf() of stream_csv /
\* get_as_records: takes whatever result is pending; with none pending the
\* fetch raises and the request fails
ConnFetch(r) ==
    /\ q_pc[r] \in {"schema_fetch", "query_fetch"}
    /\ q_fetched' = [q_fetched EXCEPT ![r] = Append(@, q_conn)]
    /\ q_conn' = None
    /\ LET next_pc == IF IsNone(q_conn) THEN "failed"
                      ELSE IF q_pc[r] = "schema_fetch" THEN "query" ELSE "done"
       IN /\ q_pc' = [q_pc EXCEPT ![r] = next_pc]
          /\ q_loop' = IF next_pc \in {"failed", "done"} /\ q_loop = Some(r) THEN None ELSE q_loop
    /\ UNCHANGED <<q_format, q_columns>>
    /\ UNCHANGED <<valVars, reqVars, apiVars, sVars, tVars>>

\* the request variables while no request is being built
RequestIdle ==
    /\ query_params = CHOOSE q \in EndpointQueries(0) : TRUE
    /\ params = None

InitQuery ==
    /\ ValidatorIdle
    /\ RequestIdle
    /\ ApiIdle
    /\ SnapshotIdle
    /\ ResultIdle
    /\ q_format \in [QueryRequests -> ResponseFormat]
    /\ q_columns \in [QueryRequests -> BOOLEAN]
    /\ q_pc = [r \in QueryRequests |-> "pending"]
    /\ q_conn = None
    /\ q_fetched = [r \in QueryRequests |-> << >>]
    /\ q_loop = None

NextQuery == \E r \in QueryRequests : QueryStart(r) \/ ConnExecute(r) \/ ConnFetch(r)

SpecQuery == InitQuery /\ [][NextQuery]_vars

----------------------------------------------------------------------------
\* services/query.py: QueryService.query_parquet, the query it builds

\* core/config.py: default_date_column, max_rows_default, max_rows_limit
default_date_column == "landing_date"

max_rows_default == 100000

max_rows_limit == 1000000

\* the characters of the class [a-zA-Z0-9_-]
SafeChars ==
    { "a", "b", "c", "d", "e", "f", "g", "h", "i", "j", "k", "l", "m", "n", "o", "p", "q",
      "r", "s", "t", "u", "v", "w", "x", "y", "z",
      "A", "B", "C", "D", "E", "F", "G", "H", "I", "J", "K", "L", "M", "N", "O", "P", "Q",
      "R", "S", "T", "U", "V", "W", "X", "Y", "Z",
      "0", "1", "2", "3", "4", "5", "6", "7", "8", "9", "_", "-" }

\* bool(re.match(r'^[a-zA-Z0-9_-]+$', column)): one or more characters of the
\* class up to the end of the string, where `$` also matches just before a
\* newline that ends the string
_validate_column_name(column) ==
    LET n == Len(column)
        last == IF n > 0 /\ SubSeq(column, n, n) = "\n" THEN n - 1 ELSE n
    IN /\ last >= 1
       /\ \A i \in 1..last : SubSeq(column, i, i) \in SafeChars

\* _sanitize_columns if it kept the columns the schema does not have
_sanitize_columns_unfiltered(requested, available) ==
    LET keep(col) == _validate_column_name(col)
    IN SelectSeq(requested, keep)

\* the requested columns that have a safe name and are in the schema, in the
\* requested order
_sanitize_columns(requested, available) ==
    LET keep(col) == _validate_column_name(col) /\ col \in available
    IN SelectSeq(requested, keep)

\* SELECT *
Star == << "*" >>

\* Python truth value of `list | None`: None and [] are false
TruthyList(list) == ~IsNone(list) /\ Val(list) # << >>

\* lines 63-73: the columns of the SELECT clause for the requested `columns`
\* and the columns `available` in the file
col_expr(requested, available) ==
    IF TruthyList(requested)
    THEN LET valid_cols == _sanitize_columns(Val(requested), available)
         IN IF valid_cols = << >> THEN Star ELSE valid_cols
    ELSE Star

\* line 87: date_column or self.settings.default_date_column
effective_date_column(date_column) ==
    IF ~IsNone(date_column) /\ Val(date_column) # "" THEN Val(date_column)
    ELSE default_date_column

\* one `if value is not None: conditions.append(...); params.append(value)`
Predicate(column, op, value) ==
    IF IsNone(value) THEN << >>
    ELSE << [column |-> column, op |-> op, value |-> Val(value)] >>

\* lines 84-115: the predicates of the WHERE conjunction of a call, in order
Predicates(call) ==
    Predicate(effective_date_column(call.date_column), ">=", call.date_from)
    \o Predicate(effective_date_column(call.date_column), "<=", call.date_to)
    \o Predicate("gaul_1_code", "=", call.gaul_1)
    \o Predicate("gaul_2_code", "=", call.gaul_2)
    \o Predicate("catch_taxon", "=", call.catch_taxon)
    \o Predicate("survey_id", "=", call.survey_id)

\* a condition that carries its value in the text
condition_text_interpolated(predicate) ==
    << predicate.column, predicate.op, ToString(predicate.value) >>

\* lines 94-114: the text of a condition, f'"{column}" {op} ?'; the value is
\* appended to params
condition_text(predicate) == << predicate.column, predicate.op, "?" >>

\* min() left out
effective_limit_unclamped(limit) ==
    IF ~IsNone(limit) /\ Val(limit) # 0 THEN Val(limit) ELSE max_rows_default

\* lines 124-127: min(limit or max_rows_default, max_rows_limit)
effective_limit(limit) ==
    LET wanted == IF ~IsNone(limit) /\ Val(limit) # 0 THEN Val(limit) ELSE max_rows_default
    IN IF wanted < max_rows_limit THEN wanted ELSE max_rows_limit

\* an exception raised before the query is handed to the connection
QueryError(kind, message) ==
    [ kind |-> kind, message |-> message, sent |-> FALSE, select |-> << >>,
      conditions |-> << >>, params |-> << >>, limit |-> 0 ]

\* the columns the WHERE clause of a call refers to
WhereColumns(call) == {Predicates(call)[i].column : i \in 1..Len(Predicates(call))}

\* query_parquet(**call) on the local file `file`, a record of its state
\* ("ok", "missing" or "malformed") and of the columns of its schema: the
\* exception raised before a query is built, or the query handed to the
\* connection (sent) with what became of it: the relation (kind "ok"), or
\* ValueError when the engine fails on it, as it does on a file that is not
\* a parquet file and on a column the file does not have
query_parquet(call, file) ==
    LET predicates == Predicates(call)
        query == [ select     |-> col_expr(call.columns, file.schema),
                   conditions |-> [i \in 1..Len(predicates) |-> condition_text(predicates[i])],
                   params     |-> [i \in 1..Len(predicates) |-> predicates[i].value],
                   limit      |-> effective_limit(call.limit) ]
    IN IF TruthyList(call.columns) /\ file.state # "ok"
       THEN QueryError("ValueError", "Cannot read parquet file schema")
       ELSE IF file.state = "missing"
       THEN QueryError("FileNotFoundError", "Parquet file not found")
       ELSE IF ~_validate_column_name(effective_date_column(call.date_column))
       THEN QueryError("ValueError", "Invalid date column name")
       ELSE IF ~IsNone(call.limit) /\ Val(call.limit) < 1
       THEN QueryError("ValueError", "Limit must be >= 1")
       ELSE IF file.state # "ok" \/ ~(WhereColumns(call) \subseteq file.schema)
       THEN [kind |-> "ValueError", message |-> "Query execution failed", sent |-> TRUE]
            @@ query
       ELSE [kind |-> "ok", message |-> "", sent |-> TRUE] @@ query

----------------------------------------------------------------------------
\* services/query.py: QueryService.get_as_records and QueryService.stream_csv,
\* one call on one local snapshot file (SpecResult)

\* the most columns a caller asks for
MaxColumns == 2

\* the most rows a query returns
MaxRows == 2

\* the values of a data frame
Float(value) == [type |-> "float", value |-> value]

Str(value) == [type |-> "str", value |-> value]

Timestamp(value) == [type |-> "Timestamp", value |-> value]

NoneValue == [type |-> "NoneType", value |-> "None"]

\* the columns a snapshot file may have, in file order: a string column, a
\* datetime column, a float column and a column whose name is not an
\* identifier
SchemaColumns == << "trip_id", "landing_date", "catch_kg", "gear type" >>

Schemas == SUBSET Elems(SchemaColumns) \ {{}}

\* the local file of the call
Files ==
    {[state |-> "ok", schema |-> schema] : schema \in Schemas}
    \cup {[state |-> "missing", schema |-> {}]}

\* the names a caller asks for
RequestedNames == {"trip_id", "catch_kg", "gear type", "bogus_column", "trip_id\n"}

\* the `columns` argument: None or a list
ColumnLists ==
    {None} \cup {Some(list) : list \in UNION {[1..n -> RequestedNames] : n \in 0..MaxColumns}}

\* a float column holds numbers, NaN (also for SQL NULL) and the infinities
FloatValues == {"1.5", "nan", "inf", "-inf"}

NonFinite == {"nan", "inf", "-inf"}

\* the value of a column in a row whose catch_kg is catch_kg
ColumnValue(column, catch_kg) ==
    CASE column = "catch_kg"     -> Float(catch_kg)
      [] column = "landing_date" -> Timestamp("2024-01-15 06:30:00")
      [] column = "gear type"    -> Str("gillnet")
      [] OTHER                   -> Str("T1")

\* the call get_as_records and stream_csv pass on to query_parquet
ResultCall(requested) ==
    [ date_column |-> None, date_from |-> None, date_to |-> None, gaul_1 |-> None,
      gaul_2 |-> None, catch_taxon |-> None, survey_id |-> None, columns |-> requested,
      limit |-> None ]

\* the data frame with the columns cols and one row for each element of
\* floats, the values of catch_kg
DataFrame(cols, floats) ==
    [ columns |-> cols,
      rows    |-> [r \in 1..Len(floats) |->
                     [c \in 1..Len(cols) |-> ColumnValue(cols[c], floats[r])]] ]

\* relation.fetchdf(): the data frames the engine may return for a query on
\* a file; the columns are those of the SELECT clause, in file order for `*`
fetchdf(query, file) ==
    LET in_schema(col) == col \in file.schema
        cols == IF query.select = Star THEN SelectSeq(SchemaColumns, in_schema)
                ELSE query.select
    IN { DataFrame(cols, floats) :
           floats \in UNION {[1..n -> FloatValues] : n \in 0..MaxRows} }

\* df.empty
empty(df) == df.rows = << >> \/ df.columns = << >>

\* lines 290-293: Series.dt.strftime("%Y-%m-%dT%H:%M:%S") on the datetime
\* columns
strftime(cell) ==
    IF cell.type = "Timestamp"
    THEN Str(SubSeq(cell.value, 1, 10) \o "T" \o SubSeq(cell.value, 12, 19))
    ELSE cell

\* line 296: df.replace([nan, inf, -inf], None).  The replacement is None
\* where pandas turns the column into an object column, and NaN again where
\* the column stays a float column (coerced)
replace(cell, coerced) ==
    IF cell.type = "float" /\ cell.value \in NonFinite
    THEN IF coerced THEN Float("nan") ELSE NoneValue
    ELSE cell

\* the second pass left out
safety_check_skipped(value) == value

\* lines 301-306: a float that is NaN or infinite becomes None
safety_check(value) ==
    IF value.type = "float" /\ value.value \in NonFinite THEN NoneValue ELSE value

\* line 299: df.to_dict(orient="records"), one dict per row; a column name
\* that occurs twice keeps its last value
to_dict(df) ==
    [ r \in 1..Len(df.rows) |->
        [ key \in Elems(df.columns) |->
            df.rows[r][Max({c \in 1..Len(df.columns) : df.columns[c] = key})] ] ]

\* lines 285-308 of get_as_records, from the data frame on
records_of(df, coerced) ==
    IF empty(df) THEN << >>
    ELSE LET converted ==
                 [ columns |-> df.columns,
                   rows    |-> [r \in 1..Len(df.rows) |->
                                  [c \in 1..Len(df.columns) |->
                                     replace(strftime(df.rows[r][c]), coerced)]] ]
             records == to_dict(converted)
         IN [ r \in 1..Len(records) |->
                [ key \in DOMAIN records[r] |-> safety_check(records[r][key]) ] ]

\* DataFrame.to_csv writes a field that holds a separator, a quote or a line
\* break between quotes, with every quote doubled
QuoteChars == {",", "\"", "\n", "\r"}

RECURSIVE doubled(_)
doubled(text) ==
    IF text = "" THEN ""
    ELSE LET head == SubSeq(text, 1, 1)
         IN (IF head = "\"" THEN "\"\"" ELSE head) \o doubled(SubSeq(text, 2, Len(text)))

csv_field(text) ==
    IF \E i \in 1..Len(text) : SubSeq(text, i, i) \in QuoteChars
    THEN "\"" \o doubled(text) \o "\""
    ELSE text

\* a value as to_csv writes it: NaN and None are empty fields
csv_value(cell) ==
    IF cell = NoneValue \/ cell = Float("nan") THEN "" ELSE csv_field(cell.value)

RECURSIVE csv_line(_)
csv_line(fields) ==
    IF fields = << >> THEN "\n"
    ELSE fields[1] \o (IF Len(fields) > 1 THEN "," ELSE "") \o csv_line(Tail(fields))

RECURSIVE csv_lines(_)
csv_lines(rows) ==
    IF rows = << >> THEN ""
    ELSE csv_line([c \in 1..Len(rows[1]) |-> csv_value(rows[1][c])]) \o csv_lines(Tail(rows))

\* df.to_csv(output, index=False): the header row, then one row for each row
to_csv(df) ==
    csv_line([c \in 1..Len(df.columns) |-> csv_field(df.columns[c])]) \o csv_lines(df.rows)

\* the chunk for an empty result that carries no header
empty_result_chunk_blank(requested) == ""

\* lines 229-238: the chunk for an empty result: the header row of the
\* requested columns if columns were specified, the empty string otherwise
empty_result_chunk(requested) ==
    IF TruthyList(requested)
    THEN to_csv([columns |-> Val(requested), rows |-> << >>])
    ELSE ""

\* what a call returned or raised
CallOutcome(method, kind, records, body) ==
    [method |-> method, kind |-> kind, records |-> records, body |-> body]

\* get_as_records(parquet_path, columns=t_columns), lines 247-311: an
\* exception of query_parquet is logged and raised again
get_as_records ==
    /\ IsNone(t_out)
    /\ LET query == query_parquet(ResultCall(t_columns), t_file)
       IN /\ t_query' = Some(query)
          /\ IF query.kind # "ok"
             THEN /\ t_df' = None
                  /\ t_out' = Some(CallOutcome("get_as_records", query.kind, << >>, ""))
             ELSE \E df \in fetchdf(query, t_file), coerced \in BOOLEAN :
                    /\ t_df' = Some(df)
                    /\ t_out' = Some(CallOutcome("get_as_records", "ok",
                                              records_of(df, coerced), ""))
    /\ UNCHANGED <<t_columns, t_file, t_call, t_prev>>
    /\ UNCHANGED <<valVars, reqVars, apiVars, qVars, sVars>>

\* stream_csv(parquet_path, columns=t_columns), lines 178-245, run to the end
\* of the generator: one chunk, or the exception of query_parquet
stream_csv ==
    /\ IsNone(t_out)
    /\ LET query == query_parquet(ResultCall(t_columns), t_file)
       IN /\ t_query' = Some(query)
          /\ IF query.kind # "ok"
             THEN /\ t_df' = None
                  /\ t_out' = Some(CallOutcome("stream_csv", query.kind, << >>, ""))
             ELSE \E df \in fetchdf(query, t_file) :
                    /\ t_df' = Some(df)
                    /\ t_out' = Some(CallOutcome("stream_csv", "ok", << >>,
                                              IF empty(df) THEN empty_result_chunk(t_columns)
                                              ELSE to_csv(df)))
    /\ UNCHANGED <<t_columns, t_file, t_call, t_prev>>
    /\ UNCHANGED <<valVars, reqVars, apiVars, qVars, sVars>>

InitResult ==
    /\ ValidatorIdle
    /\ RequestIdle
    /\ ApiIdle
    /\ QueryIdle
    /\ SnapshotIdle
    /\ t_columns \in ColumnLists
    /\ t_file \in Files
    /\ t_query = None
    /\ t_df = None
    /\ t_out = None
    /\ t_call = None
    /\ t_prev = None

NextResult == get_as_records \/ stream_csv

SpecResult == InitResult /\ [][NextResult]_vars

----------------------------------------------------------------------------
\* services/query.py: QueryService.query_parquet called on one local file,
\* and called again with other predicate values (SpecStatement)

\* a call gives at most this many of the six predicate arguments
MaxPredicates == 2

PredicateArgs == << "date_from", "date_to", "gaul_1", "gaul_2", "catch_taxon", "survey_id" >>

\* the values a caller may give each predicate argument
PredicateValues ==
    [ date_from   |-> Dates,
      date_to     |-> Dates,
      gaul_1      |-> {"1696", "' OR '1'='1"},
      gaul_2      |-> {"16961", "16962"},
      catch_taxon |-> {"MZZ", "SKJ"},
      survey_id   |-> {"survey_1", "x; DROP TABLE t"} ]

\* the date_column argument: absent, empty, the column of the endpoint, and
\* names that are not identifiers
DateColumns ==
    {None, Some(""), Some("landing_date"), Some("landing_date\n"), Some("landing date")}

\* the limit argument
Limits == {None, Some(-1), Some(0), Some(1), Some(2000000)}

\* the columns argument
StatementColumns ==
    {None, Some(<< "trip_id", "bogus_column" >>), Some(<< "trip_id\n", "gear type" >>)}

\* the local file: a snapshot without the columns gaul_2_code and survey_id,
\* no file, and a file that is not a parquet file
StatementFiles ==
    { [state |-> "ok",
       schema |-> {"trip_id", "trip_id\n", "gear type", "landing_date", "landing_date\n",
                   "gaul_1_code", "catch_taxon"}],
      [state |-> "missing", schema |-> {}],
      [state |-> "malformed", schema |-> {}] }

\* the calls giving at most MaxPredicates predicate arguments
StatementCalls ==
    {[date_column |-> date_column, columns |-> cols, limit |-> limit] @@ predicates :
        date_column \in DateColumns, cols \in StatementColumns, limit \in Limits,
        predicates \in Assignments(PredicateArgs, PredicateValues, MaxPredicates)}

\* the calls that differ from call only in the values of the predicate
\* arguments it gives
RECURSIVE Revalued(_, _)
Revalued(call, args) ==
    IF args = << >> THEN {call}
    ELSE LET arg == Head(args)
             rest == Revalued(call, Tail(args))
         IN IF IsNone(call[arg]) THEN rest
            ELSE {[c EXCEPT ![arg] = Some(v)] : c \in rest, v \in PredicateValues[arg]}

\* query_parquet(parquet_path, **t_call)
CallQueryParquet ==
    /\ ~IsNone(t_call)
    /\ IsNone(t_query)
    /\ t_query' = Some(query_parquet(Val(t_call), t_file))
    /\ UNCHANGED <<t_columns, t_file, t_df, t_out, t_call, t_prev>>
    /\ UNCHANGED <<valVars, reqVars, apiVars, qVars, sVars>>

\* query_parquet called once more, with other values for the predicates
CallAgain ==
    /\ ~IsNone(t_query)
    /\ IsNone(t_prev)
    /\ \E call \in Revalued(Val(t_call), PredicateArgs) :
         /\ t_prev' = Some([call |-> Val(t_call), query |-> Val(t_query)])
         /\ t_call' = Some(call)
         /\ t_query' = Some(query_parquet(call, t_file))
    /\ UNCHANGED <<t_columns, t_file, t_df, t_out>>
    /\ UNCHANGED <<valVars, reqVars, apiVars, qVars, sVars>>

InitStatement ==
    /\ ValidatorIdle
    /\ RequestIdle
    /\ ApiIdle
    /\ QueryIdle
    /\ SnapshotIdle
    /\ t_columns = None
    /\ t_file \in StatementFiles
    /\ t_query = None
    /\ t_df = None
    /\ t_out = None
    /\ t_call \in {Some(call) : call \in StatementCalls}
    /\ t_prev = None

NextStatement == CallQueryParquet \/ CallAgain

SpecStatement == InitStatement /\ [][NextStatement]_vars

----------------------------------------------------------------------------
\* services/gcs.py: GCSService, for the folder of one (country, status)

SnapshotCountry == "zanzibar"

SnapshotStatus == "validated"

Timestamps == 0..MaxTs

\* The files that may be upstream.  A file named
\*   trips-validated__<14 digits of ts>_aaa111__<tail>
\* is [ts |-> ts, tail |-> tail]; the tails are ".parquet" (the versioned
\* naming pattern), "_parquet" (any character where the pattern has its dot)
\* and ".csv".
FileTails == <<".csv", ".parquet", "_parquet">>

SnapshotFiles ==
    {[ts |-> t, tail |-> x] : t \in Timestamps, x \in {".parquet", "_parquet"}}
    \cup {[ts |-> MaxTs, tail |-> ".csv"]}

\* core/config.py, gcs_filename_pattern
\*   r'trips-\w+__(\d{14})_[a-f0-9]+__.parquet'
\* used with re.match: anchored at the start only, and its '.' is not escaped
gcs_filename_pattern(file) == file.tail \in {".parquet", "_parquet"}

\* the integer of the 14-digit group if the pattern matches, else None
_parse_timestamp_from_filename(file) ==
    IF gcs_filename_pattern(file) THEN Some(file.ts) ELSE None

\* Python truth value of `int | None`: None and 0 are false
Truthy(timestamp) == ~IsNone(timestamp) /\ Val(timestamp) # 0

\* order of the file names as strings: '.' sorts before '_'
TailRank(tail) == CHOOSE i \in 1..Len(FileTails) : FileTails[i] = tail

\* order of the tuples (timestamp, filename, blob.name): by timestamp, then by
\* name
TupleLess(a, b) ==
    \/ a.ts < b.ts
    \/ a.ts = b.ts /\ TailRank(a.tail) < TailRank(b.tail)

RECURSIVE InsertDescending(_, _)
InsertDescending(file, sorted) ==
    IF sorted = << >> THEN <<file>>
    ELSE IF TupleLess(Head(sorted), file) THEN <<file>> \o sorted
    ELSE <<Head(sorted)>> \o InsertDescending(file, Tail(sorted))

\* list.sort(reverse=True)
RECURSIVE SortReverse(_)
SortReverse(list) ==
    IF list = << >> THEN << >> ELSE InsertDescending(Head(list), SortReverse(Tail(list)))

\* _get_latest_file on the listing `blobs` (a sequence, in the order storage
\* returned it): the first of the candidates sorted descending, or None for
\* DataNotFoundError
_get_latest_file(blobs) ==
    LET keep(file) == Truthy(_parse_timestamp_from_filename(file))
        versioned_files == SelectSeq(blobs, keep)
    IN IF versioned_files = << >> THEN None
       ELSE Some(SortReverse(versioned_files)[1])

\* the listings storage may return for a set of files: every order of them
Listings(files) ==
    {blobs \in [1..Cardinality(files) -> files] : \A f \in files : \E i \in DOMAIN blobs : blobs[i] = f}

\* cache_key = f"{country}_{status.value}_{timestamp}"
cache_key(country, status, timestamp) == <<country, status, timestamp>>

\* local_path.exists() if the cache were never consulted
local_path_never_exists(local, timestamp) == FALSE

\* local_path.exists()
local_path_exists(local, timestamp) == local[timestamp] # "absent"

Resolvers == 1..NumResolvers

\* the version a call resolved to
LatestTs(r) == Val(s_latest[r]).ts

\* download_parquet returned local_path
ReturnPath(r, file_state) ==
    [kind |-> "path", path |-> cache_key(SnapshotCountry, SnapshotStatus, LatestTs(r)),
     file_state |-> file_state]

DataNotFoundError == [kind |-> "DataNotFoundError", path |-> << >>, file_state |-> "absent"]

\* Upstream publishes a file.  Versions are identified by their timestamp:
\* no two candidate files of the folder carry the same one.
UpstreamAdd(file) ==
    /\ file \notin s_blobs
    /\ Cardinality(s_blobs) < MaxBlobs
    /\ \A other \in s_blobs :
          (gcs_filename_pattern(file) /\ gcs_filename_pattern(other)) => other.ts # file.ts
    /\ s_blobs' = s_blobs \cup {file}
    /\ s_stable' = {}
    /\ s_prior' = [r \in Resolvers |-> FALSE]
    /\ UNCHANGED <<s_local, s_writers, s_clobbered, s_pc, s_latest, s_fetched, s_result,
                   s_newer, s_succeeded>>
    /\ UNCHANGED <<valVars, reqVars, apiVars, qVars, tVars>>

\* Upstream removes a file that is not the latest version.
UpstreamPrune(file) ==
    /\ file \in s_blobs
    /\ \A blobs \in Listings(s_blobs) : _get_latest_file(blobs) # Some(file)
    /\ s_blobs' = s_blobs \ {file}
    /\ s_stable' = {}
    /\ s_prior' = [r \in Resolvers |-> FALSE]
    /\ UNCHANGED <<s_local, s_writers, s_clobbered, s_pc, s_latest, s_fetched, s_result,
                   s_newer, s_succeeded>>
    /\ UNCHANGED <<valVars, reqVars, apiVars, qVars, tVars>>

\* download_parquet, lines 138-146: list the folder and pick the latest file
ResolveLatest(r) ==
    /\ s_pc[r] = "start"
    /\ \E blobs \in Listings(s_blobs) :
         LET latest_file_path == _get_latest_file(blobs)
         IN /\ s_latest' = [s_latest EXCEPT ![r] = latest_file_path]
            /\ IF IsNone(latest_file_path)
               THEN /\ s_result' = [s_result EXCEPT ![r] = Some(DataNotFoundError)]
                    /\ s_pc' = [s_pc EXCEPT ![r] = "done"]
               ELSE /\ s_pc' = [s_pc EXCEPT ![r] = "check"]
                    /\ UNCHANGED s_result
    /\ LET latest_file_path == _get_latest_file(CHOOSE blobs \in Listings(s_blobs) : TRUE)
           found == ~IsNone(latest_file_path)
       IN /\ s_newer' = [s_newer EXCEPT ![r] =
                            found /\ \A t \in s_succeeded : Val(latest_file_path).ts > t]
          /\ s_prior' = [s_prior EXCEPT ![r] =
                            found /\ Val(latest_file_path).ts \in s_stable]
    /\ UNCHANGED <<s_blobs, s_local, s_writers, s_clobbered, s_fetched, s_succeeded,
                   s_stable>>
    /\ UNCHANGED <<valVars, reqVars, apiVars, qVars, tVars>>

\* download_parquet, lines 148-159 and 167: the cached file is returned if
\* local_path exists
CheckCache(r) ==
    /\ s_pc[r] = "check"
    /\ IF local_path_exists(s_local, LatestTs(r))
       THEN /\ s_result' = [s_result EXCEPT ![r] = Some(ReturnPath(r, s_local[LatestTs(r)]))]
            /\ s_pc' = [s_pc EXCEPT ![r] = "done"]
            /\ s_succeeded' = s_succeeded \cup {LatestTs(r)}
            /\ s_stable' = s_stable \cup {LatestTs(r)}
       ELSE /\ s_pc' = [s_pc EXCEPT ![r] = "download"]
            /\ UNCHANGED <<s_result, s_succeeded, s_stable>>
    /\ UNCHANGED <<s_blobs, s_local, s_writers, s_clobbered, s_latest, s_fetched,
                   s_newer, s_prior>>
    /\ UNCHANGED <<valVars, reqVars, apiVars, qVars, tVars>>

\* download_parquet, lines 160-165: blob.download_to_filename(str(local_path))
\* opens local_path for writing, which creates or truncates it, and asks
\* storage for the blob.  If the blob is gone (NotFound) the call raises
\* DataNotFoundError; the client library leaves the empty file or removes
\* it, depending on its version.
BeginDownload(r) ==
    /\ s_pc[r] = "download"
    /\ s_fetched' = [s_fetched EXCEPT ![r] = TRUE]
    /\ s_clobbered' = s_clobbered \cup {w \in s_writers : LatestTs(w) = LatestTs(r)}
    /\ IF Val(s_latest[r]) \in s_blobs
       THEN /\ s_local' = [s_local EXCEPT ![LatestTs(r)] = "partial"]
            /\ s_writers' = s_writers \cup {r}
            /\ s_pc' = [s_pc EXCEPT ![r] = "writing"]
            /\ UNCHANGED s_result
       ELSE /\ \E left \in {"partial", "absent"} :
                 s_local' = [s_local EXCEPT ![LatestTs(r)] = left]
            /\ s_result' = [s_result EXCEPT ![r] = Some(DataNotFoundError)]
            /\ s_pc' = [s_pc EXCEPT ![r] = "done"]
            /\ UNCHANGED s_writers
    /\ UNCHANGED <<s_blobs, s_latest, s_newer, s_prior, s_succeeded, s_stable>>
    /\ UNCHANGED <<valVars, reqVars, apiVars, qVars, tVars>>

\* the download wrote its last byte and download_parquet returns local_path.
\* The file is whole unless another call removed it meanwhile, or truncated
\* it: then the bytes this call wrote before are gone unless the other call
\* has written them again.
FinishDownload(r) ==
    /\ s_pc[r] = "writing"
    /\ s_writers' = s_writers \ {r}
    /\ s_clobbered' = s_clobbered \ {r}
    /\ \E file_state \in {"absent", "partial", "complete"} :
         /\ file_state = "absent" <=> s_local[LatestTs(r)] = "absent"
         /\ file_state = "partial" => r \in s_clobbered
         /\ s_local' = [s_local EXCEPT ![LatestTs(r)] = file_state]
         /\ s_result' = [s_result EXCEPT ![r] = Some(ReturnPath(r, file_state))]
    /\ s_pc' = [s_pc EXCEPT ![r] = "done"]
    /\ s_succeeded' = s_succeeded \cup {LatestTs(r)}
    /\ s_stable' = s_stable \cup {LatestTs(r)}
    /\ UNCHANGED <<s_blobs, s_latest, s_fetched, s_newer, s_prior>>
    /\ UNCHANGED <<valVars, reqVars, apiVars, qVars, tVars>>

InitSnapshot ==
    /\ ValidatorIdle
    /\ RequestIdle
    /\ ApiIdle
    /\ QueryIdle
    /\ ResultIdle
    /\ s_blobs = {}
    /\ s_local = [t \in Timestamps |-> "absent"]
    /\ s_writers = {}
    /\ s_clobbered = {}
    /\ s_pc = [r \in Resolvers |-> "start"]
    /\ s_latest = [r \in Resolvers |-> None]
    /\ s_fetched = [r \in Resolvers |-> FALSE]
    /\ s_result = [r \in Resolvers |-> None]
    /\ s_newer = [r \in Resolvers |-> FALSE]
    /\ s_prior = [r \in Resolvers |-> FALSE]
    /\ s_succeeded = {}
    /\ s_stable = {}

NextSnapshot ==
    \/ \E file \in SnapshotFiles : UpstreamAdd(file) \/ UpstreamPrune(file)
    \/ \E r \in Resolvers :
          ResolveLatest(r) \/ CheckCache(r) \/ BeginDownload(r) \/ FinishDownload(r)

SpecSnapshot == InitSnapshot /\ [][NextSnapshot]_vars

\* The same resolver when the calls follow one another: call r starts once
\* the calls before it have returned.  Upstream still changes at any time.
StartCall(r) ==
    /\ \A earlier \in 1..(r - 1) : s_pc[earlier] = "done"
    /\ ResolveLatest(r)

NextCache ==
    \/ \E file \in SnapshotFiles : UpstreamAdd(file) \/ UpstreamPrune(file)
    \/ \E r \in Resolvers :
          StartCall(r) \/ CheckCache(r) \/ BeginDownload(r) \/ FinishDownload(r)

SpecCache == InitSnapshot /\ [][NextCache]_vars

----------------------------------------------------------------------------
\* Claims about the landings endpoint (checked under Spec)

\* C1 (as claimed): a request to the landings endpoint made with an enabled
\* key whose allow_all is false, whose parameters the permission validator
\* rejects, is answered 403 and causes no snapshot listing, no snapshot fetch
\* and no query.
C1_RejectedRequestNeverReachesData ==
    ( /\ pc = "done"
      /\ ~IsNone(key_config)
      /\ ~Val(key_config).permissions.allow_all
      /\ ~IsNone(params)
      /\ validate_query_params(Val(key_config).permissions, Val(params),
                               Some(DataPath)).kind = "denied" )
    => /\ Val(response).status = HTTP_403_FORBIDDEN
       /\ gcs_calls = [listings |-> 0, fetches |-> 0]
       /\ executed = << >>

----------------------------------------------------------------------------
\* Claims about the permission validator (checked under SpecValidator)

Validated == vpc = "validated"

\* C2: with allow_all false and a non-null countries list, a request whose
\* lowercased country is not in the list is rejected with 403; unless the
\* endpoint restriction rejected it first, the rejection is the one for
\* countries and its message names the requested country and lists the
\* allowed countries, whatever the other parameters and dimensions are.
C2_CountryOutsideListDenied ==
    ( /\ Validated
      /\ ~permissions.allow_all
      /\ ~IsNone(permissions.countries)
      /\ Lower(Val(params).country) \notin Elems(Val(permissions.countries)) )
    => LET r == Val(result) IN
       /\ r.kind = "denied"
       /\ r.status = 403
       /\ r.dim \in {"endpoints", "countries"}
       /\ (IsNone(permissions.endpoints) \/ IsNone(endpoint_path)) => r.dim = "countries"
       /\ r.dim = "countries" =>
             /\ r.detail[2] = Val(params).country
             /\ r.detail[4] = Val(permissions.countries)

\* a key restricted to countries=[zanzibar] (and to one more dimension) asks
\* for tls and is told that zanzibar is the only allowed country
C2_Witness ==
    /\ Validated
    /\ ~permissions.allow_all
    /\ permissions.countries = Some(<<"zanzibar">>)
    /\ ~IsNone(permissions.max_limit)
    /\ Val(params).country = "tls"
    /\ ~IsNone(Val(params).gaul_1)
    /\ Val(result).status = 403
    /\ Val(result).dim = "countries"
    /\ Val(result).detail[2] = "tls"
    /\ Val(result).detail[4] = <<"zanzibar">>

\* C3 (as claimed): if the permissions set date_from (allow_all false), an
\* accepted request has a date_from that is present and >= permissions.date_from,
\* and a request without date_from is rejected.
C3_DateFloorEnforced ==
    ( /\ Validated
      /\ ~permissions.allow_all
      /\ ~IsNone(permissions.date_from) )
    => LET r == Val(result) IN
       /\ r.kind = "ok" =>
             /\ ~IsNone(Val(params).date_from)
             /\ Val(Val(params).date_from) >= Val(permissions.date_from)
       /\ IsNone(Val(params).date_from) => r.kind = "denied"

\* C4 (as claimed): when the permissions set max_limit (and nothing else) and
\* the requested limit exceeds it, the outcome is a 403 on max_limit.
C4_LimitAboveCeilingDenied ==
    ( /\ vpc \in {"invalid", "validated"}
      /\ ~permissions.allow_all
      /\ NumRestricted(permissions) = 1
      /\ ~IsNone(permissions.max_limit)
      /\ ~IsNone(query_params.limit)
      /\ Val(query_params.limit) > Val(permissions.max_limit) )
    => /\ ~IsNone(result)
       /\ Val(result).kind = "denied"
       /\ Val(result).status = 403
       /\ Val(result).dim = "max_limit"

\* C9: if allow_all is true the validator accepts the request and looks at no
\* other dimension, whatever the other permission fields contain.
C9_AllowAllAccepts ==
    (Validated /\ permissions.allow_all)
    => /\ Val(result).kind = "ok"
       /\ Val(result).evaluated = << >>

\* an allow_all key that also lists countries (not the requested one) is
\* accepted
C9_Witness ==
    /\ Validated
    /\ permissions.allow_all
    /\ permissions.countries = Some(<< >>)
    /\ ~IsNone(permissions.date_from)
    /\ IsNone(Val(params).date_from)
    /\ Val(result).kind = "ok"

WhitelistFilters == {"gaul_1", "gaul_2", "catch_taxon", "survey_id"}

\* C10 (as claimed): with allow_all false, countries = [] rejects every
\* country, statuses = [] rejects every status, an empty gaul_1, gaul_2,
\* catch_taxon or survey_id list rejects every request that supplies a value
\* for that filter, and an absent list rejects none.
C10_EmptyWhitelistRejects ==
    (Validated /\ ~permissions.allow_all)
    => LET r == Val(result) IN
       /\ permissions.countries = Some(<< >>) => r.kind = "denied"
       /\ permissions.statuses = Some(<< >>) => r.kind = "denied"
       /\ \A f \in WhitelistFilters :
             /\ (permissions[f] = Some(<< >>) /\ ~IsNone(query_params[f])) => r.kind = "denied"
             /\ IsNone(permissions[f]) => ~(r.kind = "denied" /\ r.dim = f)
       /\ IsNone(permissions.countries) => r.dim # "countries"
       /\ IsNone(permissions.statuses) => r.dim # "statuses"

----------------------------------------------------------------------------
\* Claims about the query service (checked under SpecQuery)

\* C5 (as claimed): whatever the interleaving of the requests' execute and
\* fetch steps on the shared connection, every result a request fetches is
\* the result of the statement that request itself executed last.
C5_FetchedResultIsOwn ==
    \A r \in DOMAIN q_fetched :
        \A i \in 1..Len(q_fetched[r]) :
            /\ ~IsNone(q_fetched[r][i])
            /\ Val(q_fetched[r][i]).owner = r

----------------------------------------------------------------------------
\* Claims about the snapshot resolver (checked under SpecSnapshot, C8 under
\* SpecCache)

\* the calls that returned a local path
Returned(r) == s_pc[r] = "done" /\ Val(s_result[r]).kind = "path"

\* C6 (as claimed): when several calls resolve the same version concurrently,
\* no call returns a local path whose file is only partially written (or is
\* not there).
C6_ReturnedSnapshotIsWhole ==
    \A r \in DOMAIN s_pc : Returned(r) => Val(s_result[r]).file_state = "complete"

\* the files of a folder whose name has the versioned naming pattern
\* trips-<status>__<14 digits>_<hex hash>__.parquet
VersionedFiles(files) == {file \in files : file.tail = ".parquet"}

\* C7 (as claimed): whenever a call lists a folder that holds at least one
\* file with the versioned naming pattern, it resolves to the file with that
\* pattern that has the greatest timestamp, whatever the order of the listing.
C7_LatestVersionedFileChosen ==
    [][ \A r \in DOMAIN s_pc :
           (s_pc[r] = "start" /\ s_pc'[r] # "start" /\ VersionedFiles(s_blobs) # {})
           => /\ ~IsNone(s_latest'[r])
              /\ Val(s_latest'[r]) \in VersionedFiles(s_blobs)
              /\ \A file \in VersionedFiles(s_blobs) : file.ts <= Val(s_latest'[r]).ts ]_vars

\* C8: a call that starts after download_parquet returned a path for the
\* version that is still the latest, with no upstream change in between or
\* during the call, returns the path keyed by that version and asks storage
\* for no blob; a call asks storage for a blob only if its version is newer
\* than every version resolved before it; and the path a call returns is
\* keyed by the timestamp of the file it resolved to.
C8_CachedSnapshotReused ==
    \A r \in DOMAIN s_pc :
        s_pc[r] = "done" =>
            /\ s_prior[r] => (Returned(r) /\ ~s_fetched[r])
            /\ s_fetched[r] => s_newer[r]
            /\ Returned(r) =>
                  Val(s_result[r]).path = <<SnapshotCountry, SnapshotStatus, Val(s_latest[r]).ts>>

\* the first call fetched version 1; the second call, with upstream
\* unchanged, returns the same path without a fetch
C8_Witness ==
    /\ s_pc = [r \in Resolvers |-> "done"]
    /\ s_fetched[1] /\ Returned(1)
    /\ s_prior[2] /\ Returned(2) /\ ~s_fetched[2]
    /\ Val(s_result[2]).path = Val(s_result[1]).path
    /\ Val(s_latest[2]).ts = 1

----------------------------------------------------------------------------
\* Claims about one request to the landings endpoint (checked under
\* SpecRequest)

\* the request presents no key, an unknown key or a disabled key
AuthenticationFails ==
    \/ IsNone(api_key)
    \/ Val(api_key) \notin DOMAIN registry
    \/ ~registry[Val(api_key)].enabled

\* the events of the given types handed to the audit service
EventsOfType(types) == {i \in 1..Len(audit_calls) : audit_calls[i].event_type \in types}

\* C11: a request without the key header is answered 401, one with a key that
\* is not in the registry 403, one with a disabled key 403; in each case
\* exactly one auth_failure event is emitted, no auth_success event and no
\* permission event, no request object is built, and the storage service and
\* the query service are not called.
C11_AuthFailureOutcomes ==
    (AuthenticationFails /\ pc # "auth")
    => /\ pc \in {"respond", "done"}
       /\ Val(response).status = IF IsNone(api_key) THEN HTTP_401_UNAUTHORIZED
                                 ELSE HTTP_403_FORBIDDEN
       /\ Val(response).body = "none"
       /\ Cardinality(EventsOfType({"auth_failure"})) = 1
       /\ EventsOfType({"auth_success", "permission_check", "permission_denied"}) = {}
       /\ key_config = None
       /\ params = None
       /\ result = None
       /\ gcs_calls = [listings |-> 0, fetches |-> 0]
       /\ executed = << >>

\* the disabled key was answered 403; its auth_failure event and the
\* data_access event of the middleware are the two events of the request
C11_Witness ==
    /\ pc = "done"
    /\ api_key = Some("disabled-key")
    /\ Val(response).status = 403
    /\ Val(response).detail = "API key is disabled."
    /\ Len(audit_calls) = 2
    /\ audit_calls[1].event_type = "auth_failure"
    /\ audit_calls[2].event_type = "data_access"

\* the part of a recorded identifier that comes from the key: the identifier
\* without the "..." that marks a truncation
KeyPart(id) ==
    IF Len(id) > 3 /\ SubSeq(id, Len(id) - 2, Len(id)) = "..."
    THEN SubSeq(id, 1, Len(id) - 3)
    ELSE id

\* C12 (as claimed): in every audit event of a request that presented a key,
\* the recorded identifier (when there is one) is the prefix of KeyIdLength
\* characters of the key and is strictly shorter than the key.
C12_KeyNeverRecordedInFull ==
    \A i \in 1..Len(audit_calls) :
        LET id == audit_calls[i].api_key_id
        IN (~IsNone(api_key) /\ id # "N/A")
           => /\ Len(KeyPart(id)) = KeyIdLength
              /\ Len(KeyPart(id)) < Len(Val(api_key))
              /\ KeyPart(id) = SubSeq(Val(api_key), 1, KeyIdLength)

ColumnsResolved == ~IsNone(parquet_path) /\ pc \notin {"auth", "params", "download", "columns"}

\* C15 (as claimed): a request with scope=trip_info resolves to a non-null
\* column list that is the trip_info list of the scope table of landings, in
\* its order, and contains trip_id and landing_date.
C15_TripInfoScopeResolves ==
    (ColumnsResolved /\ Val(params).scope = Some("trip_info"))
    => /\ ~IsNone(columns)
       /\ "trip_info" \in DOMAIN SCOPE_DEFINITIONS["landings"]
       /\ columns = Some(SCOPE_DEFINITIONS["landings"]["trip_info"])
       /\ {"trip_id", "landing_date"} \subseteq Elems(Val(columns))

\* the optional code filters and the column each one constrains
CodeFilters == {"gaul_1", "gaul_2", "catch_taxon", "survey_id"}

FilterColumn(filter) ==
    CASE filter = "gaul_1"      -> "gaul_1_code"
      [] filter = "gaul_2"      -> "gaul_2_code"
      [] filter = "catch_taxon" -> "catch_taxon"
      [] filter = "survey_id"   -> "survey_id"

\* C16 (as claimed): the request object exposes every code filter the request
\* supplies, unchanged and under the same name, and every query the endpoint
\* hands to the query service has, for each supplied filter, the equality
\* predicate on that filter's column with the supplied value.
C16_EveryCodeFilterApplied ==
    \A filter \in CodeFilters :
        ~IsNone(query_params[filter])
        => /\ ~IsNone(params)
              => /\ HasAttr(Val(params), filter)
                 /\ Val(params)[filter] = query_params[filter]
           /\ \A i \in 1..Len(executed) :
                 [column |-> FilterColumn(filter), op |-> "=",
                  value |-> Val(query_params[filter])] \in Elems(Predicates(executed[i]))

\* the request gives both bounds and date_to is before date_from
ReversedDates(q) ==
    ~IsNone(q.date_from) /\ ~IsNone(q.date_to) /\ Val(q.date_to) < Val(q.date_from)

\* C18: if both bounds are given and date_to < date_from, no request object
\* is built and the request is refused with a validation error before any
\* permission check, snapshot resolution or query; otherwise (the other
\* fields being valid) the object is built with the bounds unchanged.
C18_ReversedDateRangeRejected ==
    (~IsNone(key_config) /\ pc \notin {"auth", "params"})
    => IF ReversedDates(query_params)
       THEN /\ params = None
            /\ Val(response).status \in {422, 500}
            /\ pc \in {"respond", "done"}
            /\ result = None
            /\ gcs_calls = [listings |-> 0, fetches |-> 0]
            /\ executed = << >>
       ELSE FieldsValid(query_params)
            => /\ ~IsNone(params)
               /\ Val(params).date_from = query_params.date_from
               /\ Val(params).date_to = query_params.date_to

\* a request for date_from=2, date_to=1 was refused; one for the single day
\* date_from=date_to is not the witness's case
C18_Witness ==
    /\ pc = "done"
    /\ ~IsNone(key_config)
    /\ query_params.date_from = Some(2)
    /\ query_params.date_to = Some(1)
    /\ params = None
    /\ Val(response).status = 422
    /\ executed = << >>

----------------------------------------------------------------------------
\* Claims about validate_permissions (checked under SpecPermissions)

PermissionEvents == EventsOfType({"permission_check", "permission_denied"})

\* C13 (as claimed): when validate_permissions has returned or raised for a
\* request the validator accepts or rejects, exactly one permission event
\* has been handed to the audit service: permission_check on accept,
\* permission_denied with the rejection message on reject; it carries the
\* name of the key, the truncated key, the endpoint path, the client address
\* and every query parameter of the request.
C13_EveryDecisionAudited ==
    ( /\ vpc = "validated"
      /\ ~IsNone(key_config)
      /\ validate_query_params(Val(key_config).permissions, Val(params),
                               endpoint_path).kind \in {"ok", "denied"} )
    => LET decision == validate_query_params(Val(key_config).permissions, Val(params),
                                             endpoint_path)
       IN /\ Val(result) = decision
          /\ Cardinality(PermissionEvents) = 1
          /\ \A i \in PermissionEvents :
                LET event == audit_calls[i]
                IN /\ event.event_type = IF decision.kind = "ok" THEN "permission_check"
                                         ELSE "permission_denied"
                   /\ event.error_message = IF decision.kind = "ok" THEN None
                                            ELSE Some(decision.detail)
                   /\ event.api_key_name = Val(key_config).name
                   /\ event.api_key_id = TruncateKey(Val(api_key))
                   /\ event.endpoint = IF IsNone(endpoint_path) THEN << >>
                                       ELSE Val(endpoint_path)
                   /\ event.client_ip = IF IsNone(endpoint_path) THEN "unknown"
                                        ELSE ClientHost
                   /\ \A i2 \in 1..Len(OptionalParams) :
                         LET key == OptionalParams[i2]
                         IN ~IsNone(query_params[key])
                            => event.query_params[key] = query_params[key]

----------------------------------------------------------------------------
\* Claims about one call of get_as_records or stream_csv (checked under
\* SpecResult)

\* the indices of the requested columns that are in the schema of the file
\* and pass the identifier check
Surviving ==
    {i \in 1..Len(Val(t_columns)) :
        /\ Val(t_columns)[i] \in t_file.schema
        /\ _validate_column_name(Val(t_columns)[i])}

\* the requested columns at those indices, in the requested order
SurvivingColumns ==
    [k \in 1..Cardinality(Surviving) |->
        Val(t_columns)[CHOOSE i \in Surviving : Cardinality({j \in Surviving : j < i}) = k - 1]]

\* C17: for a requested column list and a readable snapshot file, the query
\* succeeds and its projection is the requested columns that are in the
\* schema and pass the identifier check, in the requested order; it is `*`
\* if none of them is left.  The data frame has the columns of the projection.
C17_ProjectionIsRequestedInSchema ==
    (~IsNone(t_query) /\ t_file.state = "ok" /\ TruthyList(t_columns))
    => /\ Val(t_query).kind = "ok"
       /\ Val(t_query).select = IF Surviving = {} THEN Star ELSE SurvivingColumns
       /\ Surviving # {} => Val(t_df).columns = SurvivingColumns

\* trip_id and bogus_column were requested of a file without bogus_column:
\* the projection is trip_id
C17_Witness ==
    /\ ~IsNone(t_out)
    /\ t_columns = Some(<< "trip_id", "bogus_column" >>)
    /\ "trip_id" \in t_file.schema
    /\ Val(t_out).kind = "ok"
    /\ Val(t_query).select = << "trip_id" >>

\* the header row of a CSV body for the column names
HeaderRow(names) == csv_line([c \in 1..Len(names) |-> csv_field(names[c])])

LineBreaks(text) == Cardinality({i \in 1..Len(text) : SubSeq(text, i, i) = "\n"})

\* C19: the body stream_csv yields is the header row of the requested
\* columns alone when the result is empty and columns were requested, the
\* empty string when the result is empty and no columns were requested, and
\* the header row of the result followed by one line for each row when the
\* result is not empty.
C19_CsvBodyOfResult ==
    (~IsNone(t_out) /\ Val(t_out).method = "stream_csv" /\ Val(t_out).kind = "ok")
    => LET df == Val(t_df)
           body == Val(t_out).body
       IN IF df.rows = << >>
          THEN IF TruthyList(t_columns)
               THEN body # "" /\ body = HeaderRow(Val(t_columns))
               ELSE body = ""
          ELSE /\ body = HeaderRow(df.columns) \o csv_lines(df.rows)
               /\ LineBreaks(body) = 1 + Len(df.rows)

\* an empty result for requested columns was streamed as its header row
C19_Witness ==
    /\ ~IsNone(t_out)
    /\ Val(t_out).method = "stream_csv"
    /\ Val(t_out).kind = "ok"
    /\ Val(t_df).rows = << >>
    /\ t_columns = Some(<< "trip_id", "catch_kg" >>)
    /\ Val(t_out).body = "trip_id,catch_kg\n"

IsNonFinite(value) == value.type = "float" /\ value.value \in NonFinite

\* C20: no value of a record get_as_records returns is a float NaN or
\* infinity, and every value of the data frame that is one is None in the
\* record of its row.
C20_NoNonFiniteInRecords ==
    (~IsNone(t_out) /\ Val(t_out).method = "get_as_records" /\ Val(t_out).kind = "ok")
    => LET df == Val(t_df)
           records == Val(t_out).records
       IN /\ Len(records) = Len(df.rows)
          /\ \A r \in 1..Len(records) :
                /\ DOMAIN records[r] = Elems(df.columns)
                /\ \A key \in DOMAIN records[r] : ~IsNonFinite(records[r][key])
                /\ \A c \in 1..Len(df.columns) :
                      IsNonFinite(df.rows[r][c]) => records[r][df.columns[c]] = NoneValue

\* a result with an infinity and a NaN came back as records
C20_Witness ==
    /\ ~IsNone(t_out)
    /\ Val(t_out).method = "get_as_records"
    /\ Val(t_out).kind = "ok"
    /\ Len(Val(t_df).rows) = 2
    /\ \E c \in 1..Len(Val(t_df).columns) :
          /\ Val(t_df).rows[1][c] = Float("inf")
          /\ Val(t_df).rows[2][c] = Float("nan")
          /\ Val(t_out).records[1][Val(t_df).columns[c]] = NoneValue
          /\ Val(t_out).records[2][Val(t_df).columns[c]] = NoneValue

----------------------------------------------------------------------------
\* Claims about the order and the dimensions of the permission validator
\* (checked under SpecValidator)

\* the position of a dimension in the order of the checks
DimIndex(dim) == CHOOSE i \in 1..Len(CheckOrder) : CheckOrder[i] = dim

\* the endpoint path matches a pattern of the list: it equals the pattern, or
\* the pattern ends in `*` and the path starts with what precedes the `*`
PathMatches(path, patterns) ==
    \E i \in 1..Len(patterns) :
        \/ patterns[i] = path
        \/ /\ Len(patterns[i]) > 0
           /\ patterns[i][Len(patterns[i])] = "*"
           /\ Len(patterns[i]) - 1 <= Len(path)
           /\ SubSeq(path, 1, Len(patterns[i]) - 1) = SubSeq(patterns[i], 1, Len(patterns[i]) - 1)

\* the request supplies a value for the filter, the permissions list values
\* for it, and the lowercased value is not in the list
OutsideWhitelist(filter) ==
    /\ ~IsNone(query_params[filter])
    /\ ~IsNone(permissions[filter])
    /\ Lower(Val(query_params[filter])) \notin Elems(Val(permissions[filter]))

\* the dimensions the request violates
Violated ==
    {dim \in Elems(CheckOrder) :
        CASE dim = "endpoints" ->
                /\ ~IsNone(endpoint_path)
                /\ ~IsNone(permissions.endpoints)
                /\ ~PathMatches(Val(endpoint_path), Val(permissions.endpoints))
          [] dim = "countries" ->
                /\ ~IsNone(permissions.countries)
                /\ Lower(query_params.country) \notin Elems(Val(permissions.countries))
          [] dim = "statuses" ->
                /\ ~IsNone(permissions.statuses)
                /\ Lower(query_params.status) \notin Elems(Val(permissions.statuses))
          [] dim = "date_range" ->
                \/ /\ ~IsNone(permissions.date_from)
                   /\ \/ IsNone(query_params.date_from)
                      \/ Val(query_params.date_from) < Val(permissions.date_from)
                \/ /\ ~IsNone(permissions.date_to)
                   /\ ~IsNone(query_params.date_to)
                   /\ Val(query_params.date_to) > Val(permissions.date_to)
          [] dim = "max_limit" ->
                /\ ~IsNone(permissions.max_limit)
                /\ ~IsNone(query_params.limit)
                /\ Val(query_params.limit) > Val(permissions.max_limit)
          [] OTHER -> OutsideWhitelist(dim) }

\* C21 (as claimed): a request that violates several dimensions at once (allow_all
\* false) is rejected with 403, and the rejection is the one for the violated
\* dimension that comes first in the order endpoints, countries, statuses,
\* date window, gaul_1, gaul_2, catch_taxon, survey_id, max_limit.
C21_FirstViolatedDimensionRejects ==
    (Validated /\ ~permissions.allow_all /\ Cardinality(Violated) >= 2)
    => /\ Val(result).kind = "denied"
       /\ Val(result).status = 403
       /\ DimIndex(Val(result).dim) = Min({DimIndex(dim) : dim \in Violated})

\* C22 (as claimed): for each of gaul_1, gaul_2, catch_taxon and survey_id
\* (allow_all false): the validator rejects on that filter only if the
\* request supplies a value, the permission list is not null and the
\* lowercased value is not in the lowercased list; and when that is so, the
\* request is rejected, on that filter or on a dimension checked before it.
C22_FilterMembershipDecides ==
    (Validated /\ ~permissions.allow_all)
    => \A filter \in WhitelistFilters :
          /\ (Val(result).kind = "denied" /\ Val(result).dim = filter)
                => OutsideWhitelist(filter)
          /\ OutsideWhitelist(filter)
                => /\ Val(result).kind = "denied"
                   /\ DimIndex(Val(result).dim) <= DimIndex(filter)

----------------------------------------------------------------------------
\* Claims about what a restricted key's request makes the query service do
\* (checked under Spec)

\* the permissions of the authenticated key
KeyPermissions == Val(key_config).permissions

\* C24 (as claimed): for a key with allow_all false, every query run for a
\* request has a lower date bound that is present and not before
\* permissions.date_from when that is set, and an upper date bound that is
\* present and not after permissions.date_to when that is set.
C24_AppliedDatesInsideWindow ==
    (~IsNone(key_config) /\ ~KeyPermissions.allow_all)
    => \A i \in 1..Len(executed) :
          /\ ~IsNone(KeyPermissions.date_from)
                => /\ ~IsNone(executed[i].date_from)
                   /\ Val(executed[i].date_from) >= Val(KeyPermissions.date_from)
          /\ ~IsNone(KeyPermissions.date_to)
                => /\ ~IsNone(executed[i].date_to)
                   /\ Val(executed[i].date_to) <= Val(KeyPermissions.date_to)

\* C25 (as claimed): for a key with allow_all false whose permissions set
\* max_limit, the row limit of every query run for a request, the default
\* included, is at most max_limit.
C25_AppliedLimitWithinCeiling ==
    ( /\ ~IsNone(key_config)
      /\ ~KeyPermissions.allow_all
      /\ ~IsNone(KeyPermissions.max_limit) )
    => \A i \in 1..Len(executed) :
          IsNone(executed[i].limit) \/ Val(executed[i].limit) >= 1
             => effective_limit(executed[i].limit) <= Val(KeyPermissions.max_limit)

----------------------------------------------------------------------------
\* Claims about the query query_parquet builds (checked under SpecStatement)

\* the predicate arguments the call gives, in the order of the WHERE clause
GivenArgs ==
    LET given(arg) == ~IsNone(Val(t_call)[arg])
    IN SelectSeq(PredicateArgs, given)

\* the text of a query: SELECT list, WHERE conjunction and LIMIT
QueryText(query) == << query.select, query.conditions, query.limit >>

\* C26: in every query handed to the connection each condition ends in the
\* placeholder `?`, there are as many bound parameters as conditions, and the
\* parameters are the values of the predicate arguments given, in the order
\* date_from, date_to, gaul_1, gaul_2, catch_taxon, survey_id; a call that
\* differs from another only in those values has the same query text.
C26_ValuesAreBoundParameters ==
    /\ (~IsNone(t_call) /\ ~IsNone(t_query) /\ Val(t_query).sent)
       => LET query == Val(t_query)
          IN /\ Len(query.conditions) = Len(GivenArgs)
             /\ Len(query.params) = Len(GivenArgs)
             /\ \A i \in 1..Len(GivenArgs) :
                   /\ query.conditions[i][3] = "?"
                   /\ query.params[i] = Val(Val(t_call)[GivenArgs[i]])
    /\ (~IsNone(t_prev) /\ Val(t_prev).query.sent)
       => /\ Val(t_query).sent
          /\ QueryText(Val(t_query)) = QueryText(Val(t_prev).query)

\* two calls with different values for gaul_1 and survey_id, among them a
\* quote and a semicolon, had the same text and their own two parameters
C26_Witness ==
    /\ ~IsNone(t_prev)
    /\ Val(t_prev).query.sent
    /\ Val(t_query).sent
    /\ Val(t_prev).call.gaul_1 = Some("1696")
    /\ Val(t_call).gaul_1 = Some("' OR '1'='1")
    /\ Val(t_call).survey_id = Some("x; DROP TABLE t")
    /\ Val(t_query).params = << "' OR '1'='1", "x; DROP TABLE t" >>
    /\ Val(t_prev).query.params # Val(t_query).params
    /\ QueryText(Val(t_query)) = QueryText(Val(t_prev).query)

\* the name is not empty and all its characters are of [A-Za-z0-9_-]
AllowListed(name) ==
    /\ Len(name) >= 1
    /\ \A i \in 1..Len(name) : SubSeq(name, i, i) \in SafeChars

\* C27 (as claimed): every column name in the SELECT list and in the
\* conditions of a query handed to the connection is allow-listed, and a
\* call whose date column is not allow-listed raises before any query is
\* handed to the connection.
C27_IdentifiersAllowListed ==
    (~IsNone(t_call) /\ ~IsNone(t_query))
    => LET query == Val(t_query)
       IN /\ query.sent
                => /\ query.select # Star
                      => \A i \in 1..Len(query.select) : AllowListed(query.select[i])
                   /\ \A i \in 1..Len(query.conditions) :
                         AllowListed(query.conditions[i][1])
          /\ ~AllowListed(effective_date_column(Val(t_call).date_column))
                => ~query.sent /\ query.kind # "ok"

\* the limit argument is absent or at least 1
LimitUsable(limit) == IsNone(limit) \/ Val(limit) >= 1

\* C28: the LIMIT of a query handed to the connection is the smaller of the
\* limit given (100000 if none is given) and 1000000, so it is in
\* 1..1000000; a call with a limit below 1 raises and hands no query to the
\* connection, and the error is the one about the limit unless the file or
\* the date column made the call fail before.
C28_LimitClamped ==
    (~IsNone(t_call) /\ ~IsNone(t_query))
    => LET query == Val(t_query)
           call == Val(t_call)
           wanted == IF IsNone(call.limit) THEN max_rows_default ELSE Val(call.limit)
       IN /\ query.sent
                => /\ LimitUsable(call.limit)
                   /\ query.limit = Min({wanted, max_rows_limit})
                   /\ query.limit \in 1..max_rows_limit
          /\ ~LimitUsable(call.limit)
                => /\ ~query.sent
                   /\ query.kind \in {"ValueError", "FileNotFoundError"}
                   /\ ( /\ t_file.state # "missing"
                        /\ ~(TruthyList(call.columns) /\ t_file.state # "ok")
                        /\ _validate_column_name(effective_date_column(call.date_column)) )
                      => query.message = "Limit must be >= 1"

\* a call asking for 2000000 rows was given LIMIT 1000000
C28_Witness ==
    /\ ~IsNone(t_call)
    /\ ~IsNone(t_query)
    /\ Val(t_call).limit = Some(2000000)
    /\ Val(t_query).kind = "ok"
    /\ Val(t_query).limit = max_rows_limit

\* the failures of the query path: the file cannot be read, the file is not
\* there, the engine fails on the query
ExecutionErrors ==
    {"Cannot read parquet file schema", "Parquet file not found", "Query execution failed"}

\* C30 (as claimed): whether or not columns are requested, a call that fails
\* because the file is malformed, because the file is missing or because the
\* engine fails on the query raises the same kind of error, ValueError, and
\* get_dataset answers it with a status that is not the 404 of a (country,
\* status) without snapshot.
C30_ExecutionErrorsOneCategory ==
    (~IsNone(t_query) /\ Val(t_query).message \in ExecutionErrors)
    => /\ Val(t_query).kind = "ValueError"
       /\ query_failure_status(Val(t_query).kind) # data_not_found_status

----------------------------------------------------------------------------
\* A further claim about the snapshot resolver (checked under SpecSnapshot)

\* C29 (as claimed): when a call lists the folder, the file it resolves to
\* has the versioned naming pattern trips-<status>__<14 digits>_<hex
\* hash>__.parquet, and the call fails with DataNotFoundError exactly when
\* the folder holds no file with that pattern, whatever the 14 digits of the
\* files are.
C29_CandidatesAreVersionedFiles ==
    [][ \A r \in DOMAIN s_pc :
           (s_pc[r] = "start" /\ s_pc'[r] # "start")
           => /\ IsNone(s_latest'[r]) <=> VersionedFiles(s_blobs) = {}
              /\ ~IsNone(s_latest'[r]) => Val(s_latest'[r]) \in VersionedFiles(s_blobs) ]_vars

====
